---- MODULE Spec2Model ----
(***************************************************************************)
(* A model of the runtime behaviour of the TypeScript handbook scripts of  *)
(* this repository: the toy functions they define (padLeft, the card       *)
(* pickers, pickCard, applyMixins, the decorators) and the top-level       *)
(* statements that call them.                                              *)
(*                                                                         *)
(* JavaScript values are tagged records [t |-> tag, v |-> payload]; a      *)
(* string is the sequence of its characters, so that concatenation is \o   *)
(* and length is Len.  A call ends in a completion: [c |-> "return", v] or *)
(* [c |-> "throw", v].                                                     *)
(***************************************************************************)
EXTENDS Integers, Sequences, FiniteSets, TLC

VARIABLES
    file,   \* the source file whose code runs
    fn,     \* the function or statement that ran last
    args,   \* the arguments it ran with
    ret,    \* its completion
    heap,   \* the objects that exist: constructors, prototypes, instances
    pc,     \* the position reached in the script
    log     \* what console.log has printed so far

vars == <<file, fn, args, ret, heap, pc, log>>
\* the state a single function call does not touch
runVars == <<heap, pc, log>>

----------------------------------------------------------------------------
(* JavaScript values *)

Undefined == [t |-> "undefined"]
Null == [t |-> "null"]
Bool(b) == [t |-> "boolean", v |-> b]
Num(n) == [t |-> "number", v |-> n]
Str(s) == [t |-> "string", v |-> s]
\* the number NaN
NaN == [t |-> "NaN"]

\* the typeof operator
TypeOf(x) ==
    CASE x.t = "null" -> "object"
      [] x.t = "NaN" -> "number"
      [] x.t = "array" -> "object"
      [] x.t = "error" -> "object"
      [] OTHER -> x.t

Return(x) == [c |-> "return", v |-> x]
Throw(x) == [c |-> "throw", v |-> x]
\* new Error(message), new RangeError(message), new TypeError(message)
Error(name, message) == [t |-> "error", name |-> name, v |-> message]

NoCall == [c |-> "none"]

\* a script that only calls functions: no objects, nothing printed
NoRun ==
    /\ heap = <<>>
    /\ pc = "call"
    /\ log = <<>>

----------------------------------------------------------------------------
(* Objects, strings and the + operator *)

TypeError(message) == Error("TypeError", <<message>>)

\* an object literal: props is a record of its own properties
Obj(props) == [t |-> "object", props |-> props]

\* x === undefined || x === null
IsNullish(x) == x.t \in {"undefined", "null"}

\* o[k] of a value that is not nullish: undefined when o has no such property
GetProp(o, k) ==
    IF o.t = "object" /\ k \in DOMAIN o.props THEN o.props[k] ELSE Undefined

\* o.k as an expression: a TypeError when o is undefined or null
ReadProp(o, k) ==
    IF IsNullish(o)
    THEN Throw(TypeError("Cannot read properties of undefined"))
    ELSE Return(GetProp(o, k))

\* k in o: a TypeError unless o is an object
InOperator(k, o) ==
    IF o.t # "object"
    THEN Throw(TypeError("Cannot use 'in' operator"))
    ELSE Return(Bool(k \in DOMAIN o.props))

\* the boolean a value converts to in a condition
Truthy(x) ==
    CASE IsNullish(x) -> FALSE
      [] x.t = "NaN" -> FALSE
      [] x.t = "boolean" -> x.v
      [] x.t = "number" -> x.v # 0
      [] x.t = "string" -> x.v # <<>>
      [] OTHER -> TRUE

DigitChars == <<"0", "1", "2", "3", "4", "5", "6", "7", "8", "9">>
RECURSIVE NatToChars(_)
NatToChars(n) ==
    IF n < 10 THEN <<DigitChars[n + 1]>>
    ELSE NatToChars(n \div 10) \o <<DigitChars[(n % 10) + 1]>>

\* String(x) for the primitive values
ToChars(x) ==
    CASE x.t = "string" -> x.v
      [] x.t = "undefined" -> <<"u", "n", "d", "e", "f", "i", "n", "e", "d">>
      [] x.t = "null" -> <<"n", "u", "l", "l">>
      [] x.t = "NaN" -> <<"N", "a", "N">>
      [] x.t = "boolean" ->
            IF x.v THEN <<"t", "r", "u", "e">> ELSE <<"f", "a", "l", "s", "e">>
      [] x.t = "number" ->
            IF x.v < 0 THEN <<"-">> \o NatToChars(0 - x.v) ELSE NatToChars(x.v)

\* Number(x) for the primitive values that are not strings
ToNumber(x) ==
    CASE x.t = "number" -> x
      [] x.t = "null" -> Num(0)
      [] x.t = "boolean" -> Num(IF x.v THEN 1 ELSE 0)
      [] OTHER -> NaN

\* a + b: concatenation when either side is a string, addition otherwise
JSPlus(a, b) ==
    IF a.t = "string" \/ b.t = "string"
    THEN Str(ToChars(a) \o ToChars(b))
    ELSE LET x == ToNumber(a)
             y == ToNumber(b)
         IN  IF x.t = "NaN" \/ y.t = "NaN" THEN NaN ELSE Num(x.v + y.v)

\* a * b of primitive values that are not strings
JSTimes(a, b) ==
    LET x == ToNumber(a)
        y == ToNumber(b)
    IN  IF x.t = "NaN" \/ y.t = "NaN" THEN NaN ELSE Num(x.v * y.v)

\* arr.join(sep): undefined and null elements join as the empty string
RECURSIVE Join(_, _)
Join(arr, sep) ==
    IF arr = <<>> THEN <<>>
    ELSE LET head == IF IsNullish(arr[1]) THEN <<>> ELSE ToChars(arr[1])
         IN  IF Len(arr) = 1 THEN head ELSE head \o sep \o Join(Tail(arr), sep)

Space == Str(<<" ">>)

\* n copies of the character ch
Repeat(ch, n) == [i \in 1..n |-> ch]

\* Array(len).join(" "): Array(len) throws a RangeError unless len is a valid
\* array length; the join of len holes is len - 1 separators.  (The upper
\* limit 2^32 - 1 of an array length is beyond the integers of the checker
\* and of every input drawn here; only the lower limit is modelled.)
ArrayJoinSpace(len) ==
    IF len.t = "NaN" \/ len.v < 0
    THEN Throw(Error("RangeError", <<"Invalid array length">>))
    ELSE Return(Str(Repeat(" ", IF len.v = 0 THEN 0 ELSE len.v - 1)))

----------------------------------------------------------------------------
(* src/unnamed/part_002: unions *)

\* a mutant of padLeft: Array(padding) in place of Array(padding + 1)
padLeft_OffByOne(value, padding) ==
    IF TypeOf(padding) = "number"
    THEN LET a == ArrayJoinSpace(padding)
         IN  IF a.c = "throw" THEN a ELSE Return(JSPlus(a.v, value))
    ELSE IF TypeOf(padding) = "string"
    THEN Return(JSPlus(padding, value))
    ELSE Throw(Error("Error",
            <<"Expected string or number, got '", TypeOf(padding), "'.">>))

padLeft(value, padding) ==
    IF TypeOf(padding) = "number"
    THEN LET a == ArrayJoinSpace(JSPlus(padding, Num(1)))
         IN  IF a.c = "throw" THEN a ELSE Return(JSPlus(a.v, value))
    ELSE IF TypeOf(padding) = "string"
    THEN Return(JSPlus(padding, value))
    ELSE Throw(Error("Error",
            <<"Expected string or number, got '", TypeOf(padding), "'.">>))

padLeft2(value, padding) ==
    IF TypeOf(padding) = "number"
    THEN LET a == ArrayJoinSpace(JSPlus(padding, Num(1)))
         IN  IF a.c = "throw" THEN a ELSE Return(JSPlus(a.v, value))
    ELSE IF TypeOf(padding) = "string"
    THEN Return(JSPlus(padding, value))
    ELSE Throw(Error("Error",
            <<"Expected string or number, got '", TypeOf(padding), "'.">>))

----------------------------------------------------------------------------
(* Inputs *)

MaxPad == 5
MinNum == 2

HelloWorld == <<"H", "e", "l", "l", "o", " ", "W", "o", "r", "l", "d">>
SomeStrings == { <<>>, <<" ">>, <<"H", "i">>, <<"4">>, HelloWorld }
PadNumbers == (0 - MinNum - 1)..MaxPad
OtherPaddings ==
    { Undefined, Null, Bool(TRUE), Bool(FALSE),
      [t |-> "object", v |-> "plain"], [t |-> "array", v |-> <<>>],
      [t |-> "function", v |-> "f"], NaN }
Paddings ==
    {Num(n) : n \in PadNumbers} \cup {Str(s) : s \in SomeStrings}
        \cup OtherPaddings

----------------------------------------------------------------------------
(* part_002 as a state machine: the script is about to call padLeft or    *)
(* padLeft2 with some arguments, and then calls it                        *)

\* the call of name in source file f has completed
Called(f, name) == file = f /\ fn = name /\ ret.c # "none"
\* the call of name in source file f is about to run
Calling(f, name) == file = f /\ fn = name /\ ret.c = "none"

InitUnions ==
    \E name \in {"padLeft", "padLeft2"}, value \in SomeStrings, padding \in Paddings :
        /\ file = "part_002"
        /\ fn = name
        /\ args = <<Str(value), padding>>
        /\ ret = NoCall
        /\ NoRun

CallPadLeft ==
    /\ Calling("part_002", "padLeft")
    /\ ret' = padLeft(args[1], args[2])
    /\ UNCHANGED <<file, fn, args, runVars>>

CallPadLeft2 ==
    /\ Calling("part_002", "padLeft2")
    /\ ret' = padLeft2(args[1], args[2])
    /\ UNCHANGED <<file, fn, args, runVars>>

NextUnions == CallPadLeft \/ CallPadLeft2

SpecUnions == InitUnions /\ [][NextUnions]_vars

----------------------------------------------------------------------------
(* C3 *)

IsPadCall == Called("part_002", "padLeft") \/ Called("part_002", "padLeft2")

----------------------------------------------------------------------------
(* Numbers and Math.random *)

\* Math.random() returns a number r with 0 <= r < 1; the model draws r as
\* k / RandomGrain for a numerator k of MathRandom.
RandomGrain == 52
MathRandom == 0..(RandomGrain - 1)

\* Math.floor(r * n) for r = k / RandomGrain and an integer n >= 0
FloorRandomTimes(k, n) == (k * n) \div RandomGrain

\* Math.floor(a / b) for integers a and b > 0
FloorDiv(a, b) == a \div b

\* a % b of JavaScript: the remainder has the sign of the dividend
JSRem(a, b) == IF a >= 0 THEN a % b ELSE 0 - ((0 - a) % b)

\* arr[i] of an array (held as a TLA+ sequence): undefined outside 0..length-1
JSIndex(arr, i) == IF i >= 0 /\ i < Len(arr) THEN arr[i + 1] ELSE Undefined

----------------------------------------------------------------------------
(* src/functions.ts: this and arrow functions, overloads *)

\* { suit: ..., card: ... }
CardObj(suit, card) == [t |-> "object", v |-> "card", suit |-> suit, card |-> card]

deckSuits == <<Str(<<"heart">>), Str(<<"spades">>), Str(<<"clubs">>), Str(<<"diamonds">>)>>
deck == [t |-> "object", v |-> "deck", suits |-> deckSuits]
deck2 == [t |-> "object", v |-> "deck2", suits |-> deckSuits]
\* the value of this in a plain call of sloppy code: an object with no suits
globalThis == [t |-> "object", v |-> "globalThis"]

\* A function value: an arrow function keeps the this of the place where it
\* was created, a function expression takes the this of each call.
FunctionExpr(name) == [t |-> "function", v |-> name, arrow |-> FALSE, captured |-> Undefined]
ArrowFunction(name, this) == [t |-> "function", v |-> name, arrow |-> TRUE, captured |-> this]

\* deck.createCardPicker, called with the given this
createCardPicker(this) == FunctionExpr("cardPicker")
\* deck.createCardPicker2
createCardPicker2(this) == ArrowFunction("cardPicker", this)
\* deck2.createCardPicker
deck2_createCardPicker(this) == ArrowFunction("cardPicker", this)

\* a mutant of ThisOf: an arrow function that takes the this of the call
ThisOf_Dynamic(f, thisArg) == thisArg

\* the this a function body sees when the function is called with thisArg
ThisOf(f, thisArg) == IF f.arrow THEN f.captured ELSE thisArg

\* the body shared by the three pickers; k is the Math.random() draw
cardPickerBody(this, k) ==
    LET pickedCard == FloorRandomTimes(k, 52)
        pickedSuit == FloorDiv(pickedCard, 13)
    IN  IF this.t \in {"undefined", "null"}
        THEN Throw(TypeError("Cannot read properties of undefined (reading 'suits')"))
        ELSE IF "suits" \notin DOMAIN this
        THEN Throw(TypeError("Cannot read properties of undefined"))
        ELSE Return(CardObj(JSIndex(this.suits, pickedSuit), Num(JSRem(pickedCard, 13))))

\* picker(): a call that binds no this; picker.bind(thisArg)(): a bound call
CallPicker(picker, thisArg, k) == cardPickerBody(ThisOf(picker, thisArg), k)

suits == <<Str(<<"heard">>), Str(<<"spades">>), Str(<<"clubs">>), Str(<<"diamonds">>)>>

\* a mutant of pickCard: Math.round in place of Math.floor
pickCard_Round(x, k) ==
    IF TypeOf(x) = "object"
    THEN IF x.t = "null"
         THEN Throw(TypeError("Cannot read properties of null (reading 'length')"))
         ELSE Return(Num((2 * k * Len(x.v) + RandomGrain) \div (2 * RandomGrain)))
    ELSE IF TypeOf(x) = "number"
    THEN LET pickedSuit == (2 * x.v + 13) \div 26
         IN  Return(CardObj(JSIndex(suits, pickedSuit), Num(JSRem(x.v, 13))))
    ELSE Return(Undefined)

\* pickCard(x); k is the Math.random() draw
pickCard(x, k) ==
    IF TypeOf(x) = "object"
    THEN IF x.t = "null"
         THEN Throw(TypeError("Cannot read properties of null (reading 'length')"))
         ELSE Return(Num(FloorRandomTimes(k, Len(x.v))))
    ELSE IF TypeOf(x) = "number"
    THEN LET pickedSuit == FloorDiv(x.v, 13)
         IN  Return(CardObj(JSIndex(suits, pickedSuit), Num(JSRem(x.v, 13))))
    ELSE Return(Undefined)

myDeck ==
    <<CardObj(Str(<<"diamonds">>), Num(2)), CardObj(Str(<<"spades">>), Num(10)),
      CardObj(Str(<<"hearts">>), Num(4))>>

JSArray(elems) == [t |-> "array", v |-> elems]

----------------------------------------------------------------------------
(* functions.ts as a state machine: any call of a picker or of pickCard *)

MaxCardArg == 54
MaxDeckLen == 3

Pickers ==
    { createCardPicker(deck), createCardPicker2(deck), deck2_createCardPicker(deck2) }
ThisArgs == { Undefined, globalThis, deck, deck2 }
PickCardArgs ==
    {Num(n) : n \in (0 - MinNum - 13)..MaxCardArg}
        \cup {JSArray(SubSeq(myDeck \o myDeck, 1, n)) : n \in 0..MaxDeckLen}
        \cup {Null, Undefined, Str(<<"1">>)}

InitFunctions ==
    /\ NoRun
    /\ file = "functions"
    /\ ret = NoCall
    /\ \/ \E picker \in Pickers, thisArg \in ThisArgs, k \in MathRandom :
            /\ fn = "cardPicker"
            /\ args = <<picker, thisArg, k>>
       \/ \E x \in PickCardArgs, k \in MathRandom :
            /\ fn = "pickCard"
            /\ args = <<x, k>>

CallCardPicker ==
    /\ Calling("functions", "cardPicker")
    /\ ret' = CallPicker(args[1], args[2], args[3])
    /\ UNCHANGED <<file, fn, args, runVars>>

CallPickCard ==
    /\ Calling("functions", "pickCard")
    /\ ret' = pickCard(args[1], args[2])
    /\ UNCHANGED <<file, fn, args, runVars>>

NextFunctions == CallCardPicker \/ CallPickCard

SpecFunctions == InitFunctions /\ [][NextFunctions]_vars

----------------------------------------------------------------------------
(* C4, C5 *)

FourSuits(ss) == { ss[i] : i \in 1..4 }

\* C4: a picker built with an arrow function uses the deck it was created on
\* whatever this it is called with: for the draw p in 0..51 it returns
\* suit = suits[p div 13], one of the deck's four suits and never undefined,
\* and card = p mod 13 in 0..12; the picker of deck.createCardPicker() bound
\* to deck returns the same card for the same draw.
C4_ArrowPickerUsesItsDeck ==
    Called("functions", "cardPicker") =>
        LET picker == args[1]
            thisArg == args[2]
            p == (args[3] * 52) \div RandomGrain
        IN  /\ p \in 0..51
            /\ picker.arrow =>
                /\ ret.c = "return"
                /\ ret.v.suit = picker.captured.suits[(p \div 13) + 1]
                /\ ret.v.suit \in FourSuits(picker.captured.suits)
                /\ ret.v.suit # Undefined
                /\ ret.v.card = Num(p % 13)
                /\ ret.v.card.v \in 0..12
            /\ (~picker.arrow /\ thisArg = deck) =>
                /\ ret.c = "return"
                /\ ret = CallPicker(createCardPicker2(deck), Undefined, args[3])
                /\ ret.v.card = Num(p % 13)

C4_Witness ==
    /\ Called("functions", "cardPicker")
    /\ args[1] = createCardPicker2(deck)
    /\ args[2] = Undefined
    /\ ret = Return(CardObj(Str(<<"spades">>), Num(7)))

\* C5: pickCard(x) returns, for an array x of length n >= 1, an integer index
\* i with 0 <= i < n, so that myDeck[pickCard(myDeck)] is an element of
\* myDeck; and for a number x the card {suit: suits[x div 13], card: x mod 13},
\* whose suit is one of the four suits and whose card is in 0..12 whenever
\* 0 <= x <= 51.
C5_PickCard ==
    Called("functions", "pickCard") =>
        LET x == args[1]
        IN  /\ (x.t = "array" /\ Len(x.v) >= 1) =>
                /\ ret.c = "return"
                /\ ret.v.t = "number"
                /\ ret.v.v \in 0..(Len(x.v) - 1)
                /\ JSIndex(x.v, ret.v.v) \in { x.v[i] : i \in 1..Len(x.v) }
            /\ x.t = "number" =>
                /\ ret.c = "return"
                /\ ret.v.t = "object"
                /\ ret.v.suit = JSIndex(suits, x.v \div 13)
                /\ ret.v.card.t = "number"
                /\ x.v >= 0 => ret.v.card.v = x.v % 13
                /\ x.v < 0 => ret.v.card.v = 0 - ((0 - x.v) % 13)
                /\ (x.v >= 0 /\ x.v <= 51) =>
                    /\ ret.v.suit = suits[(x.v \div 13) + 1]
                    /\ ret.v.suit \in FourSuits(suits)
                    /\ ret.v.card.v \in 0..12

C5_Witness ==
    /\ Called("functions", "pickCard")
    /\ args[1] = Num(15)
    /\ ret = Return(CardObj(Str(<<"spades">>), Num(2)))

----------------------------------------------------------------------------
(* src/functions.ts lines 1-75: typed functions, optional, default and     *)
(* rest parameters                                                         *)

add(x, y) == JSPlus(x, y)

buildName(firstName, lastName) == JSPlus(JSPlus(firstName, Space), lastName)

buildName2(firstName, lastName) ==
    IF Truthy(lastName) THEN JSPlus(JSPlus(firstName, Space), lastName) ELSE firstName

\* a parameter with a default takes it when the argument is undefined
DefaultParam(x, dflt) == IF x.t = "undefined" THEN dflt ELSE x

buildName3(firstName, lastName) ==
    JSPlus(JSPlus(firstName, Space), DefaultParam(lastName, Str(<<"S", "m", "i", "t", "h">>)))

buildName4(firstName, lastName) ==
    JSPlus(JSPlus(DefaultParam(firstName, Str(<<"W", "i", "l", "l">>)), Space), lastName)

buildName5(firstName, restOfName) ==
    JSPlus(JSPlus(firstName, Space), Str(Join(restOfName, <<" ">>)))

----------------------------------------------------------------------------
(* src/unnamed/part_003: the copy of functions.ts lines 1-75 *)

p3_add(x, y) == JSPlus(x, y)

p3_buildName(firstName, lastName) == JSPlus(JSPlus(firstName, Space), lastName)

p3_buildName2(firstName, lastName) ==
    IF Truthy(lastName) THEN JSPlus(JSPlus(firstName, Space), lastName) ELSE firstName

p3_buildName3(firstName, lastName) ==
    JSPlus(JSPlus(firstName, Space), DefaultParam(lastName, Str(<<"S", "m", "i", "t", "h">>)))

p3_buildName4(firstName, lastName) ==
    JSPlus(JSPlus(DefaultParam(firstName, Str(<<"W", "i", "l", "l">>)), Space), lastName)

p3_buildName5(firstName, restOfName) ==
    JSPlus(JSPlus(firstName, Space), Str(Join(restOfName, <<" ">>)))

----------------------------------------------------------------------------
(* Method calls *)

\* what a method returns when it returns this: the instance it was called on
ThisRef == [t |-> "this"]
\* a method's completion: the value returned and the instance after the call
MethodReturn(v, this) == [c |-> "return", v |-> v, this |-> this]

----------------------------------------------------------------------------
(* src/HandbookReference/advancedTypes.ts: type guards, nullable types, polymorphic this, index types *)

isFish(pet) ==
    LET swim == ReadProp(pet, "swim")
    IN  IF swim.c = "throw" THEN swim ELSE Return(Bool(swim.v # Undefined))

move(pet) ==
    LET has == InOperator("swim", pet)
    IN  IF has.c = "throw" THEN has
        ELSE IF has.v.v THEN Return(GetProp(pet, "swim"))
        ELSE Return(GetProp(pet, "fly"))

isNumber(x) == TypeOf(x) = "number"
isString(x) == TypeOf(x) = "string"

at_padLeft(value, padding) ==
    IF isNumber(padding)
    THEN LET a == ArrayJoinSpace(JSPlus(padding, Num(1)))
         IN  IF a.c = "throw" THEN a ELSE Return(JSPlus(a.v, value))
    ELSE IF isString(padding)
    THEN Return(JSPlus(padding, value))
    ELSE Throw(Error("Error", <<"Expected string or number">>))

\* x + (y ?? 0)
f(x, y) == JSPlus(x, IF IsNullish(y) THEN Num(0) ELSE y)

f2(stringOrNull) ==
    IF ~Truthy(stringOrNull) THEN Str(<<"d", "e", "f", "a", "u", "l", "t">>)
    ELSE stringOrNull

f3(stringOrNull) ==
    IF IsNullish(stringOrNull) THEN Str(<<"d", "e", "f", "a", "u", "l", "t">>)
    ELSE stringOrNull

\* a mutant of getUser: the user without email is returned
getUser_NoEmail(role) ==
    Obj([id |-> Num(1), name |-> Str(<<"u", "s", "e", "r">>), role |-> role])

\* { ...user, email: 'email' } is chosen, since 0 > 0.5 is false
getUser(role) ==
    LET user == [id |-> Num(1), name |-> Str(<<"u", "s", "e", "r">>), role |-> role]
    IN  IF 0 * 2 > 1 THEN Obj(user)
        ELSE Obj([id |-> user.id, name |-> user.name, role |-> user.role,
                  email |-> Str(<<"e", "m", "a", "i", "l">>)])

\* new BasicCalculator(value)
BasicCalculator(value) == Obj([value |-> value])
BasicCalculator_currentValue(this) == MethodReturn(this.props.value, this)
\* add returning a new calculator and leaving this as it was
BasicCalculator_add_Copy(this, operand) ==
    MethodReturn([this EXCEPT !.props.value = JSPlus(@, operand)], this)
BasicCalculator_add(this, operand) ==
    MethodReturn(ThisRef, [this EXCEPT !.props.value = JSPlus(@, operand)])
BasicCalculator_multiply(this, operand) ==
    MethodReturn(ThisRef, [this EXCEPT !.props.value = JSTimes(@, operand)])

\* propertyNames.map(k => o[k])
pluck(o, propertyNames) ==
    IF IsNullish(o) /\ propertyNames # <<>>
    THEN Throw(TypeError("Cannot read properties of undefined"))
    ELSE Return(JSArray([i \in 1..Len(propertyNames) |-> GetProp(o, propertyNames[i])]))

getProperty(o, k) == ReadProp(o, k)

----------------------------------------------------------------------------
(* src/unnamed/part_004 lines 1-274, the copy of advancedTypes.ts: type guards, nullable types, polymorphic this, index types *)

p4_isFish(pet) ==
    LET swim == ReadProp(pet, "swim")
    IN  IF swim.c = "throw" THEN swim ELSE Return(Bool(swim.v # Undefined))

p4_move(pet) ==
    LET has == InOperator("swim", pet)
    IN  IF has.c = "throw" THEN has
        ELSE IF has.v.v THEN Return(GetProp(pet, "swim"))
        ELSE Return(GetProp(pet, "fly"))

p4_isNumber(x) == TypeOf(x) = "number"
p4_isString(x) == TypeOf(x) = "string"

p4_padLeft(value, padding) ==
    IF p4_isNumber(padding)
    THEN LET a == ArrayJoinSpace(JSPlus(padding, Num(1)))
         IN  IF a.c = "throw" THEN a ELSE Return(JSPlus(a.v, value))
    ELSE IF p4_isString(padding)
    THEN Return(JSPlus(padding, value))
    ELSE Throw(Error("Error", <<"Expected string or number">>))

\* x + (y ?? 0)
p4_f(x, y) == JSPlus(x, IF IsNullish(y) THEN Num(0) ELSE y)

p4_f2(stringOrNull) ==
    IF ~Truthy(stringOrNull) THEN Str(<<"d", "e", "f", "a", "u", "l", "t">>)
    ELSE stringOrNull

\* a mutant of p4_f3: || in place of ??
p4_f3_Or(stringOrNull) ==
    IF Truthy(stringOrNull) THEN stringOrNull ELSE Str(<<"d", "e", "f", "a", "u", "l", "t">>)

p4_f3(stringOrNull) ==
    IF IsNullish(stringOrNull) THEN Str(<<"d", "e", "f", "a", "u", "l", "t">>)
    ELSE stringOrNull

\* { ...user, email: 'email' } is chosen, since 0 > 0.5 is false
p4_getUser(role) ==
    LET user == [id |-> Num(1), name |-> Str(<<"u", "s", "e", "r">>), role |-> role]
    IN  IF 0 * 2 > 1 THEN Obj(user)
        ELSE Obj([id |-> user.id, name |-> user.name, role |-> user.role,
                  email |-> Str(<<"e", "m", "a", "i", "l">>)])

\* new BasicCalculator(value)
p4_BasicCalculator(value) == Obj([value |-> value])
p4_BasicCalculator_currentValue(this) == MethodReturn(this.props.value, this)
p4_BasicCalculator_add(this, operand) ==
    MethodReturn(ThisRef, [this EXCEPT !.props.value = JSPlus(@, operand)])
p4_BasicCalculator_multiply(this, operand) ==
    MethodReturn(ThisRef, [this EXCEPT !.props.value = JSTimes(@, operand)])

\* propertyNames.map(k => o[k])
p4_pluck(o, propertyNames) ==
    IF IsNullish(o) /\ propertyNames # <<>>
    THEN Throw(TypeError("Cannot read properties of undefined"))
    ELSE Return(JSArray([i \in 1..Len(propertyNames) |-> GetProp(o, propertyNames[i])]))

p4_getProperty(o, k) == ReadProp(o, k)

----------------------------------------------------------------------------
(* The functions of the four files, by name: the call name(a[1], ..., a[n]) *)

ApplyAdvancedTypes(name, a) ==
    CASE name = "isFish" -> isFish(a[1])
      [] name = "move" -> move(a[1])
      [] name = "padLeft" -> at_padLeft(a[1], a[2])
      [] name = "f" -> Return(f(a[1], a[2]))
      [] name = "f2" -> Return(f2(a[1]))
      [] name = "f3" -> Return(f3(a[1]))
      [] name = "getUser" -> Return(getUser(a[1]))
      [] name = "BasicCalculator" -> Return(BasicCalculator(a[1]))
      [] name = "currentValue" -> BasicCalculator_currentValue(a[1])
      [] name = "add" -> BasicCalculator_add(a[1], a[2])
      [] name = "multiply" -> BasicCalculator_multiply(a[1], a[2])
      [] name = "pluck" -> pluck(a[1], a[2])
      [] name = "getProperty" -> getProperty(a[1], a[2])

ApplyPart004(name, a) ==
    CASE name = "isFish" -> p4_isFish(a[1])
      [] name = "move" -> p4_move(a[1])
      [] name = "padLeft" -> p4_padLeft(a[1], a[2])
      [] name = "f" -> Return(p4_f(a[1], a[2]))
      [] name = "f2" -> Return(p4_f2(a[1]))
      [] name = "f3" -> Return(p4_f3(a[1]))
      [] name = "getUser" -> Return(p4_getUser(a[1]))
      [] name = "BasicCalculator" -> Return(p4_BasicCalculator(a[1]))
      [] name = "currentValue" -> p4_BasicCalculator_currentValue(a[1])
      [] name = "add" -> p4_BasicCalculator_add(a[1], a[2])
      [] name = "multiply" -> p4_BasicCalculator_multiply(a[1], a[2])
      [] name = "pluck" -> p4_pluck(a[1], a[2])
      [] name = "getProperty" -> p4_getProperty(a[1], a[2])

ApplyFunctions(name, a) ==
    CASE name = "add" -> Return(add(a[1], a[2]))
      [] name = "buildName" -> Return(buildName(a[1], a[2]))
      [] name = "buildName2" -> Return(buildName2(a[1], a[2]))
      [] name = "buildName3" -> Return(buildName3(a[1], a[2]))
      [] name = "buildName4" -> Return(buildName4(a[1], a[2]))
      [] name = "buildName5" -> Return(buildName5(a[1], a[2]))

ApplyPart003(name, a) ==
    CASE name = "add" -> Return(p3_add(a[1], a[2]))
      [] name = "buildName" -> Return(p3_buildName(a[1], a[2]))
      [] name = "buildName2" -> Return(p3_buildName2(a[1], a[2]))
      [] name = "buildName3" -> Return(p3_buildName3(a[1], a[2]))
      [] name = "buildName4" -> Return(p3_buildName4(a[1], a[2]))
      [] name = "buildName5" -> Return(p3_buildName5(a[1], a[2]))

----------------------------------------------------------------------------
(* The duplicated files as a state machine: one of the four files is about *)
(* to call one of its functions, and then calls it                         *)

MaxNum == 3
MaxRest == 2

SomeNumbers == {Num(n) : n \in (0 - MinNum)..MaxNum} \cup {NaN}
fish == Obj([swim |-> Str(<<"s", "w", "i", "m">>)])
bird == Obj([fly |-> Str(<<"f", "l", "y">>)])
taxi ==
    Obj([manufacturer |-> Str(<<"Toyota">>), model |-> Str(<<"Camry">>), year |-> Num(2014)])
Pets ==
    { fish, bird, Obj([swim |-> Str(<<"s">>), fly |-> Str(<<"f">>)]),
      Obj([swim |-> Undefined]), Obj([layEggs |-> Num(1)]), Undefined, Null, Num(1) }
Names == { Str(s) : s \in SomeStrings }
PropertyNames == {"manufacturer", "model", "year", "swim"}
RECURSIVE SeqsUpTo(_, _)
SeqsUpTo(S, n) ==
    IF n = 0 THEN { <<>> }
    ELSE SeqsUpTo(S, n - 1) \cup { Append(q, x) : q \in SeqsUpTo(S, n - 1), x \in S }

AdvancedTypesCall ==
    \/ fn \in {"isFish", "move"} /\ \E pet \in Pets : args = <<pet>>
    \/ fn = "padLeft" /\ \E value \in Names, padding \in Paddings : args = <<value, padding>>
    \/ fn = "f" /\ \E x \in SomeNumbers, y \in SomeNumbers \cup {Undefined, Null} :
            args = <<x, y>>
    \/ fn \in {"f2", "f3"} /\ \E x \in Names \cup {Undefined, Null} : args = <<x>>
    \/ fn = "getUser" /\ \E role \in Names : args = <<role>>
    \/ fn = "BasicCalculator" /\ \E value \in SomeNumbers : args = <<value>>
    \/ fn = "currentValue" /\ \E value \in SomeNumbers : args = <<Obj([value |-> value])>>
    \/ fn \in {"add", "multiply"} /\ \E value \in SomeNumbers, operand \in SomeNumbers :
            args = <<Obj([value |-> value]), operand>>
    \/ fn = "pluck" /\ \E o \in {taxi, fish, Undefined},
                          names \in SeqsUpTo(PropertyNames, MaxRest) : args = <<o, names>>
    \/ fn = "getProperty" /\ \E o \in {taxi, fish, Undefined, Null}, k \in PropertyNames :
            args = <<o, k>>

FunctionsCall ==
    \/ fn = "add" /\ \E x \in SomeNumbers, y \in SomeNumbers : args = <<x, y>>
    \/ fn \in {"buildName", "buildName2", "buildName3", "buildName4"}
        /\ \E firstName \in Names \cup {Undefined}, lastName \in Names \cup {Undefined, Null} :
            args = <<firstName, lastName>>
    \/ fn = "buildName5"
        /\ \E firstName \in Names, restOfName \in SeqsUpTo(Names \cup {Undefined}, MaxRest) :
            args = <<firstName, restOfName>>

InitDuplicates ==
    /\ ret = NoCall
    /\ NoRun
    /\ \/ file \in {"advancedTypes", "part_004"} /\ AdvancedTypesCall
       \/ file \in {"functions", "part_003"} /\ FunctionsCall

CallAdvancedTypes ==
    /\ file = "advancedTypes" /\ ret.c = "none"
    /\ ret' = ApplyAdvancedTypes(fn, args)
    /\ UNCHANGED <<file, fn, args, runVars>>

CallPart004 ==
    /\ file = "part_004" /\ ret.c = "none"
    /\ ret' = ApplyPart004(fn, args)
    /\ UNCHANGED <<file, fn, args, runVars>>

CallFunctions ==
    /\ file = "functions" /\ ret.c = "none"
    /\ ret' = ApplyFunctions(fn, args)
    /\ UNCHANGED <<file, fn, args, runVars>>

CallPart003 ==
    /\ file = "part_003" /\ ret.c = "none"
    /\ ret' = ApplyPart003(fn, args)
    /\ UNCHANGED <<file, fn, args, runVars>>

NextDuplicates == CallAdvancedTypes \/ CallPart004 \/ CallFunctions \/ CallPart003

SpecDuplicates == InitDuplicates /\ [][NextDuplicates]_vars

----------------------------------------------------------------------------
(* C2 *)

\* C2: every function defined both in advancedTypes.ts and in part_004, and
\* every function defined both in functions.ts and in part_003, returns (or
\* throws) the same in both files for every input.
C2_DuplicatesAgree ==
    ret.c # "none" =>
        /\ file = "advancedTypes" => ret = ApplyPart004(fn, args)
        /\ file = "part_004" => ret = ApplyAdvancedTypes(fn, args)
        /\ file = "functions" => ret = ApplyPart003(fn, args)
        /\ file = "part_003" => ret = ApplyFunctions(fn, args)

C2_Witness ==
    /\ file = "part_004"
    /\ fn = "f3"
    /\ args = <<Str(<<>>)>>
    /\ ret = Return(Str(<<>>))

----------------------------------------------------------------------------
(* Objects on the heap: own properties with their descriptors, a prototype *)
(* and the extensible flag.  An object is named by an identifier; a        *)
(* constructor C and its prototype are "C" and "C.prototype".              *)

Fn(name) == [t |-> "function", v |-> name]
Prototype(C) == C \o ".prototype"
NoProto == "null"

\* a data property's descriptor
DataDesc(value, writable, enumerable, configurable) ==
    [value |-> value, writable |-> writable, enumerable |-> enumerable,
     configurable |-> configurable]
\* a method of a class body
MethodDesc(name) == DataDesc(Fn(name), TRUE, FALSE, TRUE)
\* a property created by assignment or by a field initialiser
FieldDesc(value) == DataDesc(value, TRUE, TRUE, TRUE)

HeapObj(props, proto) == [props |-> props, proto |-> proto, extensible |-> TRUE]

\* Object.getOwnPropertyNames(o)
getOwnPropertyNames(h, o) == DOMAIN h[o].props
\* Object.getOwnPropertyDescriptor(o, name), for an own name
getOwnPropertyDescriptor(h, o, name) == h[o].props[name]

\* the outcome of an operation on the heap
HeapReturn(h, v) == [c |-> "return", v |-> v, heap |-> h]
HeapThrow(h, e) == [c |-> "throw", v |-> e, heap |-> h]

\* Object.defineProperty(o, name, desc): a TypeError for a new property of a
\* non-extensible object and for a change of a non-configurable property
\* other than the value of a writable one
defineProperty(h, o, name, desc) ==
    IF name \in DOMAIN h[o].props
    THEN LET cur == h[o].props[name]
         IN  IF cur.configurable \/ cur = desc
                \/ (cur.writable /\ [cur EXCEPT !.value = desc.value] = desc)
             THEN HeapReturn([h EXCEPT ![o].props[name] = desc], Undefined)
             ELSE HeapThrow(h, TypeError("Cannot redefine property"))
    ELSE IF ~h[o].extensible
    THEN HeapThrow(h, TypeError("Cannot define property, object is not extensible"))
    ELSE HeapReturn([h EXCEPT ![o].props = (name :> desc) @@ @], Undefined)

\* o.name, looked up along the prototype chain; undefined when not found
RECURSIVE Lookup(_, _, _)
Lookup(h, o, name) ==
    IF o = NoProto THEN Undefined
    ELSE IF name \in DOMAIN h[o].props THEN h[o].props[name].value
    ELSE Lookup(h, h[o].proto, name)

\* o.name = value in strict code, for a name no prototype makes read-only
SetProp(h, o, name, value) ==
    IF name \in DOMAIN h[o].props
    THEN IF h[o].props[name].writable
         THEN HeapReturn([h EXCEPT ![o].props[name].value = value], value)
         ELSE HeapThrow(h, TypeError("Cannot assign to read only property"))
    ELSE IF ~h[o].extensible
    THEN HeapThrow(h, TypeError("Cannot add property, object is not extensible"))
    ELSE HeapReturn([h EXCEPT ![o].props = (name :> FieldDesc(value)) @@ @], value)

----------------------------------------------------------------------------
(* src/HandbookReference/mixins.ts *)

\* the classes of the file: each constructor's prototype, with its methods
mixinsClasses ==
    [ i \in { Prototype(C) : C \in {"Kangaroo", "Duckable", "Sprite2", "CannotJump", "Jumpable"} } |->
        CASE i = Prototype("Kangaroo") ->
                HeapObj([constructor |-> MethodDesc("Kangaroo"),
                         jump |-> MethodDesc("Kangaroo.jump")], NoProto)
          [] i = Prototype("Duckable") ->
                HeapObj([constructor |-> MethodDesc("Duckable"),
                         duck |-> MethodDesc("Duckable.duck")], NoProto)
          [] i = Prototype("Sprite2") ->
                HeapObj([constructor |-> MethodDesc("Sprite2")], NoProto)
          [] i = Prototype("CannotJump") ->
                HeapObj([constructor |-> MethodDesc("CannotJump"),
                         setPos |-> MethodDesc("CannotJump.setPos")], NoProto)
          [] i = Prototype("Jumpable") ->
                HeapObj([constructor |-> MethodDesc("Jumpable"),
                         jump |-> MethodDesc("Jumpable.jump")], Prototype("CannotJump")) ]

\* the inner forEach of applyMixins: every own name of baseCtor.prototype is
\* defined on derivedCtor.prototype with the descriptor it has on the base
RECURSIVE copyProperties(_, _, _, _)
copyProperties(h, derivedCtor, baseCtor, names) ==
    IF names = {} THEN HeapReturn(h, Undefined)
    ELSE LET name == CHOOSE n \in names : TRUE
             r == defineProperty(h, Prototype(derivedCtor), name,
                     getOwnPropertyDescriptor(h, Prototype(baseCtor), name))
         IN  IF r.c = "throw" THEN r
             ELSE copyProperties(r.heap, derivedCtor, baseCtor, names \ {name})

\* a mutant of applyMixins: a name the derived prototype already has is kept
RECURSIVE applyMixins_KeepFirst(_, _, _)
applyMixins_KeepFirst(h, derivedCtor, constructors) ==
    IF constructors = <<>> THEN HeapReturn(h, Undefined)
    ELSE LET baseCtor == Head(constructors)
             r == copyProperties(h, derivedCtor, baseCtor,
                     getOwnPropertyNames(h, Prototype(baseCtor))
                        \ getOwnPropertyNames(h, Prototype(derivedCtor)))
         IN  IF r.c = "throw" THEN r
             ELSE applyMixins_KeepFirst(r.heap, derivedCtor, Tail(constructors))

\* applyMixins(derivedCtor, constructors): the outer forEach
RECURSIVE applyMixins(_, _, _)
applyMixins(h, derivedCtor, constructors) ==
    IF constructors = <<>> THEN HeapReturn(h, Undefined)
    ELSE LET baseCtor == Head(constructors)
             r == copyProperties(h, derivedCtor, baseCtor,
                     getOwnPropertyNames(h, Prototype(baseCtor)))
         IN  IF r.c = "throw" THEN r
             ELSE applyMixins(r.heap, derivedCtor, Tail(constructors))

\* new Sprite2() and new CannotJump(): an object with x = 0 and y = 0
NewInstance(h, id, C) ==
    (id :> HeapObj([x |-> FieldDesc(Num(0)), y |-> FieldDesc(Num(0))], Prototype(C))) @@ h

\* CannotJump.prototype.setPos: this.x = x; this.y = y
setPos(h, this, x, y) ==
    LET r == SetProp(h, this, "x", x)
    IN  IF r.c = "throw" THEN r ELSE SetProp(r.heap, this, "y", y)

\* this.name(): a TypeError when this has no such method; the bodies are
\* those of Kangaroo.jump, Duckable.duck and CannotJump.setPos, which call
\* nothing, and of Jumpable.jump, which calls this.setPos(0, 20)
CallMethod(h, this, name, a) ==
    LET m == Lookup(h, this, name)
    IN  IF m.t # "function"
        THEN HeapThrow(h, TypeError("is not a function"))
        ELSE CASE m.v \in {"Kangaroo.jump", "Duckable.duck"} -> HeapReturn(h, Undefined)
               [] m.v = "CannotJump.setPos" ->
                    LET r == setPos(h, this, a[1], a[2])
                    IN  IF r.c = "throw" THEN r ELSE HeapReturn(r.heap, Undefined)
               [] m.v = "Jumpable.jump" ->
                    LET sp == Lookup(h, this, "setPos")
                    IN  IF sp.t # "function"
                        THEN HeapThrow(h, TypeError("this.setPos is not a function"))
                        ELSE LET r == setPos(h, this, Num(0), Num(20))
                             IN  IF r.c = "throw" THEN r ELSE HeapReturn(r.heap, Undefined)
               [] OTHER -> HeapReturn(h, Undefined)

----------------------------------------------------------------------------
(* mixins.ts as a state machine: applyMixins is applied to a class, an      *)
(* instance of the class is created, and methods are called on it          *)

MaxMixins == 3
MaxMethodCalls == 2

DerivedCtors == {"Sprite2", "CannotJump"}
BaseCtors == {"Kangaroo", "Duckable", "Jumpable", "CannotJump"}
MethodNames == {"jump", "duck", "setPos"}
player == "player"

InitMixins ==
    /\ file = "mixins"
    /\ fn = "none"
    /\ args = <<>>
    /\ ret = NoCall
    /\ heap = mixinsClasses
    /\ pc = "classes"
    /\ log = <<>>

ApplyMixins ==
    /\ file = "mixins" /\ pc = "classes"
    /\ \E derivedCtor \in DerivedCtors, constructors \in SeqsUpTo(BaseCtors, MaxMixins) :
        LET r == applyMixins(heap, derivedCtor, constructors)
        IN  /\ fn' = "applyMixins"
            /\ args' = <<derivedCtor, constructors>>
            /\ ret' = [c |-> r.c, v |-> r.v]
            /\ heap' = r.heap
            /\ pc' = IF r.c = "throw" THEN "threw" ELSE "mixed"
    /\ UNCHANGED <<file, log>>

NewPlayer ==
    /\ file = "mixins" /\ pc = "mixed"
    /\ heap' = NewInstance(heap, player, args[1])
    /\ pc' = "new"
    /\ log' = <<>>
    /\ UNCHANGED <<file, fn, args, ret>>

CallPlayerMethod ==
    /\ file = "mixins" /\ pc = "new"
    /\ Len(log) < MaxMethodCalls
    /\ \E name \in MethodNames, x \in {Num(1)}, y \in {Num(2)} :
        LET r == CallMethod(heap, player, name, <<x, y>>)
        IN  /\ heap' = r.heap
            /\ ret' = [c |-> r.c, v |-> r.v]
            /\ log' = Append(log, <<name, r.c>>)
    /\ UNCHANGED <<file, fn, args, pc>>

NextMixins == ApplyMixins \/ NewPlayer \/ CallPlayerMethod

SpecMixins == InitMixins /\ [][NextMixins]_vars

----------------------------------------------------------------------------
(* C6 *)

\* the last mixin of the list whose prototype has the name
LastWith(h, constructors, name) ==
    LET is == { i \in 1..Len(constructors) :
                    name \in getOwnPropertyNames(h, Prototype(constructors[i])) }
    IN  constructors[CHOOSE i \in is : \A j \in is : j <= i]

\* C6: after applyMixins(D, [B1, ..., Bn]), D.prototype has every own property
\* name of every Bi.prototype, with the descriptor of the last Bi that defines
\* the name; so a Sprite2 instance mixed with Kangaroo and Duckable answers
\* jump() and duck(), and its fields x and y stay 0.
C6_ApplyMixins ==
    (file = "mixins" /\ pc \in {"mixed", "new"}) =>
        LET D == args[1]
            Bs == args[2]
        IN  /\ \A i \in 1..Len(Bs) :
                \A name \in getOwnPropertyNames(heap, Prototype(Bs[i])) :
                    /\ name \in getOwnPropertyNames(heap, Prototype(D))
                    /\ getOwnPropertyDescriptor(heap, Prototype(D), name)
                        = getOwnPropertyDescriptor(heap,
                            Prototype(LastWith(heap, Bs, name)), name)
            /\ (D = "Sprite2" /\ Bs = <<"Kangaroo", "Duckable">> /\ pc = "new") =>
                /\ Lookup(heap, player, "jump") = Fn("Kangaroo.jump")
                /\ Lookup(heap, player, "duck") = Fn("Duckable.duck")
                /\ \A i \in 1..Len(log) :
                    log[i][1] \in {"jump", "duck"} => log[i][2] = "return"
                /\ (\A i \in 1..Len(log) : log[i][1] \in {"jump", "duck"}) =>
                    /\ heap[player].props.x.value = Num(0)
                    /\ heap[player].props.y.value = Num(0)

C6_Witness ==
    /\ file = "mixins" /\ pc = "new"
    /\ args = <<"Sprite2", <<"Kangaroo", "Duckable">>>>
    /\ log = <<<<"jump", "return">>, <<"duck", "return">>>>
    /\ heap[player].props.x.value = Num(0)

----------------------------------------------------------------------------
(* src/HandbookReference/decorators.ts: the decorators *)

\* One step of evaluating a decorated class declaration.
Step(op, d, class, member) == [op |-> op, d |-> d, class |-> class, member |-> member]

Reverse(q) == [i \in 1..Len(q) |-> q[Len(q) + 1 - i]]

\* a mutant of CallOrder: the decorators are called top to bottom
CallOrder_TopDown(decorators) == decorators

\* the order in which the decorators of one declaration are called, given
\* in the order they are written: like function composition, the last
\* written is called first
CallOrder(decorators) == Reverse(decorators)

\* the decorators written on one declaration: their expressions are
\* evaluated in the order written, then the results are called
Decorate(decorators, class, member) ==
    [i \in 1..Len(decorators) |-> Step("evaluate", decorators[i], class, member)]
        \o [i \in 1..Len(decorators) |->
                Step("call", CallOrder(decorators)[i], class, member)]

\* a class declaration: the class is created, its members' decorators are
\* applied, and then the decorators of the class
DecoratedClass(class, member, memberDecorators, classDecorators) ==
    <<Step("class", "none", class, "none")>>
        \o Decorate(memberDecorators, class, member)
        \o Decorate(classDecorators, class, "none")

\* what evaluating a decorator expression prints: f() and g() are factories
EvaluateLog(d) ==
    CASE d = "f" -> <<"f(): evaluated">>
      [] d = "g" -> <<"g(): evaluated">>
      [] OTHER -> <<>>

\* what calling a decorator prints
CallLog(d) ==
    CASE d = "f" -> <<"target: ", "propertyKey: ", "descriptor: ", "f(): called">>
      [] d = "g" -> <<"g(): called">>
      [] d = "myFunc" -> <<"myFunc">>
      [] d = "sealed" -> <<"seald">>
      [] OTHER -> <<>>

\* a mutant of seal: the properties are made non-configurable, and the
\* object stays extensible
seal_StillExtensible(h, o) ==
    [h EXCEPT ![o].props = [n \in DOMAIN @ |-> [@[n] EXCEPT !.configurable = FALSE]]]

\* Object.seal(o)
seal(h, o) ==
    [h EXCEPT ![o].extensible = FALSE,
              ![o].props = [n \in DOMAIN @ |-> [@[n] EXCEPT !.configurable = FALSE]]]

\* delete o.name in strict code
DeleteProp(h, o, name) ==
    IF name \notin DOMAIN h[o].props THEN HeapReturn(h, Bool(TRUE))
    ELSE IF ~h[o].props[name].configurable
    THEN HeapThrow(h, TypeError("Cannot delete property"))
    ELSE HeapReturn([h EXCEPT ![o].props = [n \in (DOMAIN @) \ {name} |-> @[n]]],
                    Bool(TRUE))

\* sealed2(constructor)
sealed2(h, constructor) ==
    LET r == SetProp(h, Prototype(constructor), "hi", Fn("hi"))
    IN  IF r.c = "throw" THEN r
        ELSE HeapReturn(seal(seal(r.heap, constructor), Prototype(constructor)), Undefined)

\* A class as a value: the class it extends, the fields its body initialises
\* and whether its constructor assigns its argument to this.hello.
Class(name, extends, fields, assignsHello) ==
    [name |-> name, extends |-> extends, fields |-> fields, assignsHello |-> assignsHello]
NoClass == [name |-> "none"]

\* classDecorator(constructor): class extends constructor { newProperty = ...; hello = ... }
classDecorator(constructor) ==
    Class("anonymous", constructor,
          <<<<"newProperty", Str(<<"new property">>)>>, <<"hello", Str(<<"overried">>)>>>>,
          FALSE)

\* a mutant of Construct: the fields of a class are initialised before the
\* constructor of the class it extends runs
RECURSIVE Construct_FieldsFirst(_, _)
Construct_FieldsFirst(C, m) ==
    LET inherited ==
            IF C.extends.name = "none" THEN <<>> ELSE Construct_FieldsFirst(C.extends, m)
        initialised == C.fields \o inherited
    IN  IF C.assignsHello THEN Append(initialised, <<"hello", m>>) ELSE initialised

\* the own properties of new C(m): those the class it extends creates, then
\* the field initialisers in order, then the constructor body
RECURSIVE Construct(_, _)
Construct(C, m) ==
    LET inherited == IF C.extends.name = "none" THEN <<>> ELSE Construct(C.extends, m)
        initialised == inherited \o C.fields
    IN  IF C.assignsHello THEN Append(initialised, <<"hello", m>>) ELSE initialised

\* the value of property name after the assignments in order; undefined if none
RECURSIVE LastAssigned(_, _)
LastAssigned(assignments, name) ==
    IF assignments = <<>> THEN Undefined
    ELSE IF assignments[Len(assignments)][1] = name THEN assignments[Len(assignments)][2]
    ELSE LastAssigned(SubSeq(assignments, 1, Len(assignments) - 1), name)

requiredMetadatKey == "required"
MetadataKey(key, target, propertyKey) == <<key, target, propertyKey>>

\* Reflect.getOwnMetadata(key, target, propertyKey): undefined when none
getOwnMetadata(h, key, target, propertyKey) ==
    IF MetadataKey(key, target, propertyKey) \in DOMAIN h["Reflect"].metadata
    THEN h["Reflect"].metadata[MetadataKey(key, target, propertyKey)]
    ELSE Undefined

\* Reflect.defineMetadata(key, value, target, propertyKey)
defineMetadata(h, key, value, target, propertyKey) ==
    [h EXCEPT !["Reflect"].metadata = (MetadataKey(key, target, propertyKey) :> value) @@ @]

\* required(target, propertyKey, parameterIndex)
required(h, target, propertyKey, parameterIndex) ==
    LET got == getOwnMetadata(h, requiredMetadatKey, target, propertyKey)
        existingRequiredParameter == IF got = Undefined THEN JSArray(<<>>) ELSE got
    IN  defineMetadata(h, requiredMetadatKey,
            JSArray(Append(existingRequiredParameter.v, parameterIndex)), target, propertyKey)

\* the function validate puts in place of the method
Wrapper(method, target, propertyName) ==
    [t |-> "function", v |-> "validate", method |-> method, target |-> target,
     propertyName |-> propertyName]

\* validate(target, propertyName, descriptor)
validate(h, target, propertyName) ==
    LET method == h[target].props[propertyName].value
    IN  [h EXCEPT ![target].props[propertyName].value = Wrapper(method, target, propertyName)]

\* myValidate(target, propertyKey, descriptor): the accessor is held as the
\* property whose value is its set function, and that function is replaced
myValidate(h, target, propertyKey) ==
    LET set == h[target].props[propertyKey].value
    IN  [h EXCEPT ![target].props[propertyKey].value =
            [t |-> "function", v |-> "myValidate", set |-> set, target |-> target,
             propertyKey |-> propertyKey]]

\* value instanceof type, for a type that is a function
InstanceOf(value, type) ==
    type = Fn("Object") /\ value.t \in {"object", "array", "function"}

\* this.p0 = value: the function myValidate installs reads the design type,
\* throws unless the value is an instance of it, and calls the setter of the
\* class on target; the setter of the class does this._p0 = value
SetP0(h, this, value) ==
    LET set == Lookup(h, this, "p0")
    IN  IF set.v # "myValidate" THEN SetProp(h, this, "_p0", value)
        ELSE LET type == getOwnMetadata(h, "design:type", set.target, set.propertyKey)
             IN  IF type.t # "function"
                 THEN HeapThrow(h, TypeError("Right-hand side of 'instanceof' is not callable"))
                 ELSE IF ~InstanceOf(value, type)
                 THEN HeapThrow(h, TypeError("Invalid type."))
                 ELSE SetProp(h, set.target, "_p0", value)

\* arguments[i]: undefined beyond arguments.length
Argument(arguments, i) == IF i < Len(arguments) THEN arguments[i + 1] ELSE Undefined

\* Greeter6.prototype.greet as written: "Hello " + name + ' ' + lname + ", " + this.greeting
greet(h, this, arguments) ==
    LET name == Argument(arguments, 0)
        lname == Argument(arguments, 1)
    IN  JSPlus(JSPlus(JSPlus(JSPlus(JSPlus(Str(<<"H", "e", "l", "l", "o", " ">>), name),
                Space), lname), Str(<<",", " ">>)), Lookup(h, this, "greeting"))

\* a call's completion together with whether the method's own body ran
Outcome(completion, bodyRan) == [c |-> completion.c, v |-> completion.v, bodyRan |-> bodyRan]

\* a mutant of MissingRequired: && in place of ||
MissingRequired_And(arguments, parameterIndex) ==
    parameterIndex >= Len(arguments) /\ Argument(arguments, parameterIndex) = Undefined

\* parameterIndex >= arguments.length || arguments[parameterIndex] === undefined
MissingRequired(arguments, parameterIndex) ==
    parameterIndex >= Len(arguments) \/ Argument(arguments, parameterIndex) = Undefined

\* a call of the function a property holds: the wrapper checks the required
\* parameters and then applies the method to the same this and arguments
CallGreet(h, this, arguments) ==
    LET g == Lookup(h, this, "greet")
    IN  IF g.t # "function"
        THEN Outcome(Throw(TypeError("greet is not a function")), FALSE)
        ELSE IF g.v # "validate"
        THEN Outcome(Return(greet(h, this, arguments)), TRUE)
        ELSE LET requiredParameters ==
                    getOwnMetadata(h, requiredMetadatKey, g.target, g.propertyName)
             IN  IF requiredParameters # Undefined
                    /\ \E i \in 1..Len(requiredParameters.v) :
                          MissingRequired(arguments, requiredParameters.v[i])
                 THEN Outcome(Throw(Error("Error", <<"Missing required argument.">>)), FALSE)
                 ELSE Outcome(Return(greet(h, this, arguments)), TRUE)

----------------------------------------------------------------------------
(* decorators.ts as a state machine: the class declarations are evaluated  *)
(* in order, each with its decorators, and then statements use the classes *)

\* a constructor function object and the prototype object of a class
ClassObjects(class, methods) ==
    (class :> HeapObj([prototype |-> DataDesc(Fn(Prototype(class)), FALSE, FALSE, FALSE),
                       name |-> DataDesc(Str(<<class>>), FALSE, FALSE, TRUE)], NoProto))
    @@ (Prototype(class) :>
            HeapObj([n \in methods \cup {"constructor"} |->
                        MethodDesc(IF n = "constructor" THEN class ELSE class \o "." \o n)],
                    NoProto))

\* what a class declaration creates, before its decorators are applied
Declare(class) ==
    CASE class = "myClass" -> ClassObjects(class, {"method"})
      [] class = "Person4" -> ClassObjects(class, {"getName", "greet"})
      [] class = "Greeter6" -> ClassObjects(class, {"greet"})
      [] class = "Line" -> ClassObjects(class, {"p0"})
      [] class = "Greeter3" ->
            (class :> Class(class, NoClass, <<<<"property", Str(<<"property">>)>>>>, TRUE))

\* the decorated class declarations of the file, in order
decoratorsScript ==
    DecoratedClass("myClass", "method", <<"f", "g">>, <<"myFunc", "sealed">>)
        \o DecoratedClass("Person4", "none", <<>>, <<"sealed2">>)
        \o DecoratedClass("Greeter3", "none", <<>>, <<"classDecorator">>)
        \o DecoratedClass("Greeter6", "greet", <<"validate", "required">>, <<>>)

\* the heap after the decorator of a step is called
ApplyDecorator(h, step) ==
    CASE step.d = "sealed2" -> sealed2(h, step.class).heap
      [] step.d = "classDecorator" -> [h EXCEPT ![step.class] = classDecorator(@)]
      [] step.d = "required" -> required(h, Prototype(step.class), step.member, 0)
      [] step.d = "validate" -> validate(h, Prototype(step.class), step.member)
      [] step.d = "myValidate" -> myValidate(h, Prototype(step.class), step.member)
      [] step.d = "design:type" ->
            defineMetadata(h, "design:type", Fn("Object"), Prototype(step.class), step.member)
      [] OTHER -> h

MaxStatements == 3

person == "p"
greeter == "greeter"
World == Str(<<"W", "o", "r", "l", "d">>)
Chondan == Str(<<"C", "h", "o", "n", "d", "a", "n">>)
Susuwan == Str(<<"S", "u", "s", "u", "w", "a", "n">>)
HowAreYou == Str(<<"H", "o", "w", " ", "a", "r", "e", " ", "y", "o", "u", "?">>)
AssignTargets == {"Person4", Prototype("Person4")}
AssignNames == {"greet", "hello", "hi", "name"}
AssignValues == {Fn("greet68"), Fn("hello71")}
Greeter3Args == {World, Str(<<>>), Undefined}
GreetArgs == SeqsUpTo({Undefined, Null, Chondan, Susuwan}, 2)

InitDecorators ==
    /\ file = "decorators"
    /\ fn = "none"
    /\ args = <<>>
    /\ ret = NoCall
    /\ heap = ("Reflect" :> [metadata |-> <<>>])
    /\ pc = 1
    /\ log = <<>>

Declaring(op) ==
    /\ file = "decorators"
    /\ pc <= Len(decoratorsScript)
    /\ decoratorsScript[pc].op = op

DeclareClass ==
    /\ Declaring("class")
    /\ heap' = Declare(decoratorsScript[pc].class) @@ heap
    /\ pc' = pc + 1
    /\ UNCHANGED <<file, fn, args, ret, log>>

EvaluateDecorator ==
    /\ Declaring("evaluate")
    /\ log' = log \o EvaluateLog(decoratorsScript[pc].d)
    /\ pc' = pc + 1
    /\ UNCHANGED <<file, fn, args, ret, heap>>

CallDecorator ==
    /\ Declaring("call")
    /\ heap' = ApplyDecorator(heap, decoratorsScript[pc])
    /\ log' = log \o CallLog(decoratorsScript[pc].d)
    /\ pc' = pc + 1
    /\ UNCHANGED <<file, fn, args, ret>>

Declared ==
    /\ file = "decorators"
    /\ pc > Len(decoratorsScript)
    /\ pc <= Len(decoratorsScript) + MaxStatements

\* o.name = value, as on line 68
AssignProperty ==
    /\ Declared
    /\ \E o \in AssignTargets, name \in AssignNames, value \in AssignValues :
        LET r == SetProp(heap, o, name, value)
        IN  /\ fn' = "assign"
            /\ args' = <<o, name, value>>
            /\ ret' = [c |-> r.c, v |-> r.v]
            /\ heap' = r.heap
    /\ pc' = pc + 1
    /\ UNCHANGED <<file, log>>

\* delete o.name
DeleteProperty ==
    /\ Declared
    /\ \E o \in AssignTargets, name \in AssignNames :
        LET r == DeleteProp(heap, o, name)
        IN  /\ fn' = "delete"
            /\ args' = <<o, name>>
            /\ ret' = [c |-> r.c, v |-> r.v]
            /\ heap' = r.heap
    /\ pc' = pc + 1
    /\ UNCHANGED <<file, log>>

\* p = new Person4(name), as on line 73
NewPerson4 ==
    /\ Declared
    /\ \E name \in {Chondan} :
        /\ fn' = "new Person4"
        /\ args' = <<name>>
        /\ heap' = (person :> HeapObj([name |-> FieldDesc(name)], Prototype("Person4")))
                        @@ heap
    /\ ret' = Return(Undefined)
    /\ pc' = pc + 1
    /\ UNCHANGED <<file, log>>

\* new Greeter3(m), as on line 96
NewGreeter3 ==
    /\ Declared
    /\ \E m \in Greeter3Args :
        /\ fn' = "new Greeter3"
        /\ args' = <<m>>
        /\ ret' = Return(JSArray(Construct(heap["Greeter3"], m)))
    /\ pc' = pc + 1
    /\ UNCHANGED <<file, heap, log>>

\* new Greeter6(message).greet(...arguments), as on line 226
Greet ==
    /\ Declared
    /\ \E message \in {HowAreYou}, arguments \in GreetArgs :
        LET h == (greeter :> HeapObj([greeting |-> FieldDesc(message)],
                                     Prototype("Greeter6"))) @@ heap
        IN  /\ fn' = "greet"
            /\ args' = arguments
            /\ ret' = CallGreet(h, greeter, arguments)
            /\ heap' = h
    /\ pc' = pc + 1
    /\ UNCHANGED <<file, log>>

NextDecorators ==
    \/ DeclareClass
    \/ EvaluateDecorator
    \/ CallDecorator
    \/ AssignProperty
    \/ DeleteProperty
    \/ NewPerson4
    \/ NewGreeter3
    \/ Greet

SpecDecorators == InitDecorators /\ [][NextDecorators]_vars

----------------------------------------------------------------------------
(* C7 .. C10 *)

\* the lines of printed that are among lines, in the order printed
Printed(printed, lines) == SelectSeq(printed, LAMBDA line : line \in lines)
IsPrefix(q, r) == Len(q) <= Len(r) /\ q = SubSeq(r, 1, Len(q))
EndOfDeclarations == Len(decoratorsScript) + 1

methodTrace == <<"f(): evaluated", "g(): evaluated", "g(): called", "f(): called">>
classTrace == <<"seald", "myFunc">>

\* C7: for @f() @g() on myClass.method the factories are evaluated top to
\* bottom and the decorators they return are called bottom to top, so what is
\* printed is 'f(): evaluated', 'g(): evaluated', 'g(): called', 'f(): called'
\* in that order; of the class decorators @myFunc @sealed, sealed is called
\* first and myFunc second, and only after the method's decorators.
C7_CompositionOrder ==
    file = "decorators" =>
        LET ofMethod == Printed(log, { methodTrace[i] : i \in 1..4 })
            ofClass == Printed(log, { classTrace[i] : i \in 1..2 })
        IN  /\ IsPrefix(ofMethod, methodTrace)
            /\ IsPrefix(ofClass, classTrace)
            /\ ofClass # <<>> => ofMethod = methodTrace
            /\ pc >= EndOfDeclarations => (ofMethod = methodTrace /\ ofClass = classTrace)

C7_Witness ==
    /\ file = "decorators" /\ pc = EndOfDeclarations
    /\ Printed(log, {"g(): called", "f(): called", "seald", "myFunc"})
            = <<"g(): called", "f(): called", "seald", "myFunc">>

\* C8: a call of the decorated greet whose argument 0 is missing or undefined
\* throws Error('Missing required argument.') and the original body does not
\* run; every other call returns what the original greet returns for the same
\* this and arguments, whatever argument 1 is.
C8_ValidateRequired ==
    (file = "decorators" /\ fn = "greet") =>
        IF Len(args) = 0 \/ args[1] = Undefined
        THEN ret = Outcome(Throw(Error("Error", <<"Missing required argument.">>)), FALSE)
        ELSE ret = Outcome(Return(greet(heap, greeter, args)), TRUE)

C8_Witness ==
    /\ file = "decorators" /\ fn = "greet"
    /\ args = <<Undefined, Susuwan>>
    /\ ret.c = "throw" /\ ~ret.bodyRan

\* the own property names of Person4 and of Person4.prototype when sealed2 returns
sealedNames(o) ==
    IF o = "Person4" THEN {"prototype", "name"}
    ELSE {"constructor", "getName", "greet", "hi"}

\* C9: once sealed2 has run, Person4 and Person4.prototype get no new
\* property, so p.hello is undefined for every instance p; the property 'hi'
\* added before sealing stays; and the writable greet can still be replaced.
C9_Sealed ==
    (file = "decorators" /\ pc >= EndOfDeclarations) =>
        /\ \A o \in AssignTargets : getOwnPropertyNames(heap, o) \subseteq sealedNames(o)
        /\ "hi" \in getOwnPropertyNames(heap, Prototype("Person4"))
        /\ person \in DOMAIN heap =>
            /\ Lookup(heap, person, "hello") = Undefined
            /\ Lookup(heap, person, "hi") # Undefined
        /\ (fn = "assign" /\ args[2] \notin sealedNames(args[1])) => ret.c = "throw"
        /\ (fn = "assign" /\ args[1] = Prototype("Person4") /\ args[2] = "greet") =>
            /\ ret.c = "return"
            /\ Lookup(heap, Prototype("Person4"), "greet") = args[3]

C9_Witness ==
    /\ file = "decorators" /\ person \in DOMAIN heap
    /\ fn = "assign" /\ args = <<Prototype("Person4"), "hello", Fn("hello71")>>
    /\ ret.c = "throw"
    /\ Lookup(heap, person, "greet") = Fn("greet68")

\* C10: every object new Greeter3(m) makes has property = 'property',
\* newProperty = 'new property' and hello = 'overried', whatever m is.
C10_ClassDecorator ==
    (file = "decorators" /\ fn = "new Greeter3") =>
        /\ LastAssigned(ret.v.v, "property") = Str(<<"property">>)
        /\ LastAssigned(ret.v.v, "newProperty") = Str(<<"new property">>)
        /\ LastAssigned(ret.v.v, "hello") = Str(<<"overried">>)

C10_Witness ==
    /\ file = "decorators" /\ fn = "new Greeter3"
    /\ args = <<World>>
    /\ ret.v.v = <<<<"property", Str(<<"property">>)>>, <<"hello", World>>,
                   <<"newProperty", Str(<<"new property">>)>>,
                   <<"hello", Str(<<"overried">>)>>>>

----------------------------------------------------------------------------
(* The scripts, statement by statement.  While a script without classes    *)
(* runs, heap holds the constants its statements have declared and later   *)
(* statements read.  A statement ends in a completion and the heap it      *)
(* leaves; k is the draw of the Math.random() call the statement makes.    *)

\* const name = <expression>: name is declared unless the expression throws
Let(h, name, completion) ==
    IF completion.c = "throw" THEN HeapThrow(h, completion.v)
    ELSE HeapReturn((name :> completion.v) @@ h, completion.v)

\* an expression statement, and a declaration no later statement reads
Do(h, completion) == [c |-> completion.c, v |-> completion.v, heap |-> h]

\* x.length
ReadLength(x) ==
    IF IsNullish(x) THEN Throw(TypeError("Cannot read properties of undefined"))
    ELSE IF x.t \in {"string", "array"} THEN Return(Num(Len(x.v)))
    ELSE Return(Undefined)

\* o.name(): a TypeError unless the property is a function; the functions
\* called this way have empty bodies
CallEmpty(o, name) ==
    LET m == ReadProp(o, name)
    IN  IF m.c = "throw" THEN m
        ELSE IF m.v.t # "function" THEN Throw(TypeError("is not a function"))
        ELSE Return(Undefined)

\* src/functions.ts, lines 32-163; part_003 is the copy of lines 1-75
functionsScript(script, i, k, h) ==
    LET Apply(name, a) ==
            IF script = "functions" THEN ApplyFunctions(name, a) ELSE ApplyPart003(name, a)
    IN
    CASE i = 1 -> Do(h, Apply("buildName", <<Chondan, Susuwan>>))
      [] i = 2 -> Do(h, Apply("buildName2", <<Chondan, Undefined>>))
      [] i = 3 -> Do(h, Apply("buildName3", <<Str(<<"B", "o", "b">>), Undefined>>))
      [] i = 4 -> Do(h, Apply("buildName4", <<Undefined, Str(<<"S", "m", "i", "t", "h">>)>>))
      [] i = 5 -> Do(h, Apply("buildName5", <<Str(<<"Joseph">>), <<Str(<<"Samuel">>)>>>>))
      [] i = 6 -> Let(h, "cardPicker", Return(createCardPicker(deck)))
      [] i = 7 -> Do(h, CallPicker(h["cardPicker"], deck, k))
      [] i = 8 -> Let(h, "cardPicker2", Return(createCardPicker2(deck)))
      [] i = 9 -> Do(h, CallPicker(h["cardPicker2"], Undefined, k))
      [] i = 10 -> Let(h, "cardPicker3", Return(deck2_createCardPicker(deck2)))
      [] i = 11 -> Do(h, CallPicker(h["cardPicker3"], Undefined, k))
      [] i = 12 -> LET n == pickCard(JSArray(myDeck), k)
                   IN  Do(h, IF n.c = "throw" THEN n ELSE Return(JSIndex(myDeck, n.v.v)))
      [] i = 13 -> Do(h, pickCard(Num(15), k))

\* getSmallPet() of advancedTypes.ts: Math.random() > 0.5 ? fish : bird
getSmallPet(k) == IF 2 * k > RandomGrain THEN fish ELSE bird

\* new SpaceRepeatingPadder(numSpaces) and new StringPadder(value)
SpaceRepeatingPadder(numSpaces) ==
    [t |-> "object", props |-> [numSpaces |-> numSpaces], class |-> "SpaceRepeatingPadder"]
StringPadder(value) ==
    [t |-> "object", props |-> [value |-> value], class |-> "StringPadder"]

\* Math.random() < 0.5 ? new SpaceRepeatingPadder(4) : new StringPadder("  ")
getRandomPadder(k) ==
    IF 2 * k < RandomGrain THEN SpaceRepeatingPadder(Num(4))
    ELSE StringPadder(Str(<<" ", " ">>))

\* if (padder instanceof C) console.log(padder.getPaddingString())
getPaddingStringIf(padder, C) ==
    IF padder.class # C THEN Return(Undefined)
    ELSE IF C = "SpaceRepeatingPadder"
    THEN ArrayJoinSpace(JSPlus(padder.props.numSpaces, Num(1)))
    ELSE Return(padder.props.value)

\* src/HandbookReference/advancedTypes.ts, lines 20-272, and the copy of
\* these lines in part_004, then line 384 of part_004
advancedTypesScript(script, i, k, h) ==
    LET Apply(name, a) ==
            IF script = "advancedTypes" THEN ApplyAdvancedTypes(name, a)
            ELSE ApplyPart004(name, a)
    IN
    CASE i = 1 -> Let(h, "pet", Return(getSmallPet(k)))
      [] i = 2 -> LET has == InOperator("swim", h["pet"])
                  IN  Do(h, IF has.c = "return" /\ has.v.v
                            THEN ReadProp(h["pet"], "swim") ELSE has)
      [] i = 3 -> LET has == InOperator("fly", h["pet"])
                  IN  Do(h, IF has.c = "return" /\ has.v.v
                            THEN ReadProp(h["pet"], "fly") ELSE has)
      [] i = 4 -> LET swim == ReadProp(h["pet"], "swim")
                  IN  Do(h, IF swim.c = "return" /\ ~Truthy(swim.v)
                            THEN ReadProp(h["pet"], "fly") ELSE swim)
      [] i = 5 -> LET is == Apply("isFish", <<h["pet"]>>)
                  IN  Do(h, IF is.c = "throw" THEN is
                            ELSE ReadProp(h["pet"], IF is.v.v THEN "swim" ELSE "fly"))
      [] i = 6 -> Do(h, Apply("padLeft", <<Str(<<"H", "e", "l", "l", "o">>), Num(4)>>))
      [] i = 7 -> Do(h, Apply("padLeft", <<Str(<<"W", "o", "r", "l", "d">>),
                                          Str(<<"H", "e", "l", "l", "o", " ">>)>>))
      [] i = 8 -> Let(h, "padder", Return(getRandomPadder(k)))
      [] i = 9 -> Do(h, getPaddingStringIf(h["padder"], "SpaceRepeatingPadder"))
      [] i = 10 -> Do(h, getPaddingStringIf(h["padder"], "StringPadder"))
      [] i = 11 -> Do(h, Apply("f", <<Num(1), Undefined>>))
      [] i = 12 -> Do(h, Apply("f", <<Num(1), Num(11)>>))
      [] i = 13 -> Do(h, Apply("f2", <<Null>>))
      [] i = 14 -> Do(h, Apply("f2", <<Str(<<"myString">>)>>))
      [] i = 15 -> Let(h, "user", Apply("getUser", <<Str(<<"admin">>)>>))
      [] i = 16 -> LET email == ReadProp(h["user"], "email")
                   IN  Do(h, IF email.c = "throw" THEN email ELSE ReadLength(email.v))
      [] i = 17 -> LET c == Apply("BasicCalculator", <<Num(2)>>)
                       m == Apply("multiply", <<c.v, Num(5)>>)
                       a == Apply("add", <<m.this, Num(10)>>)
                   IN  Do(h, Apply("currentValue", <<a.this>>))
      [] i = 18 -> Do(h, Apply("pluck", <<taxi, <<"manufacturer", "model">>>>))
      [] i = 19 -> Do(h, Apply("getProperty", <<taxi, "model">>))
      [] i = 20 -> Do(h, Return(Undefined))

\* getSmallPet() of part_002: Math.random() > 0.5 ? bird : fish
p2_getSmallPet(k) ==
    IF 2 * k > RandomGrain
    THEN Obj([fly |-> Fn("fly"), layEggs |-> Fn("layEggs")])
    ELSE Obj([swim |-> Fn("swim"), layEggs |-> Fn("layEggs")])

\* src/unnamed/part_002, lines 15-51
part002Script(i, k, h) ==
    CASE i = 1 -> Do(h, padLeft(Str(HelloWorld), Num(4)))
      [] i = 2 -> Do(h, padLeft2(Str(HelloWorld), Num(4)))
      [] i = 3 -> Let(h, "pet", Return(p2_getSmallPet(k)))
      [] i = 4 -> Do(h, CallEmpty(h["pet"], "layEggs"))

fullNameMaxLength == 10

\* set fullName(newName) of Employee4: the instance after the assignment
setFullName(this, newName) ==
    IF Truthy(newName) /\ ReadLength(newName).v.v > fullNameMaxLength
    THEN Throw(Error("Error", <<"fullName has a max length of ">> \o NatToChars(fullNameMaxLength)))
    ELSE Return(Obj([this.props EXCEPT !["_fullName"] = newName]))

\* src/Handbook/classes.ts, lines 241-243
classesScript(i, k, h) ==
    CASE i = 1 -> Let(h, "employee4", Return(Obj([_fullName |-> Undefined])))
      [] i = 2 -> Let(h, "employee4",
                      setFullName(h["employee4"], Str(<<"B", "o", "b", " ", "S", "m", "i", "t", "h">>)))
      [] i = 3 -> Do(h, ReadProp(h["employee4"], "_fullName"))

\* src/HandbookReference/mixins.ts, lines 70-90
mixinsScript(i, k, h) ==
    CASE i = 1 -> HeapReturn(NewInstance(h, "jumpableInstance", "Jumpable"), Undefined)
      [] i = 2 -> CallMethod(h, "jumpableInstance", "jump", <<>>)
      [] i = 3 -> applyMixins(h, "Sprite2", <<"Kangaroo", "Duckable">>)
      [] i = 4 -> HeapReturn(NewInstance(h, player, "Sprite2"), Undefined)
      [] i = 5 -> CallMethod(h, player, "jump", <<>>)
      [] i = 6 -> HeapReturn(h, Lookup(h, player, "x"))

\* o.name && o.name(), for functions that return without throwing
CallIfTruthy(h, o, name) ==
    LET m == Lookup(h, o, name)
    IN  IF ~Truthy(m) THEN HeapReturn(h, m)
        ELSE IF m.t # "function" THEN HeapThrow(h, TypeError("is not a function"))
        ELSE HeapReturn(h, Undefined)

Statement(line) == Step("statement", line, "none", "none")
Point3(x, y) == Obj([x |-> Num(x), y |-> Num(y)])

\* the declarations and statements of decorators.ts that use myClass,
\* Person4, Greeter3, Greeter6 and Line, in order; the compiler adds the
\* design:type metadata decorator after the decorators written on p0
decoratorsTopLevel ==
    DecoratedClass("myClass", "method", <<"f", "g">>, <<"myFunc", "sealed">>)
        \o DecoratedClass("Person4", "none", <<>>, <<"sealed2">>)
        \o <<Statement("68"), Statement("73"), Statement("74"), Statement("75"),
             Statement("76")>>
        \o DecoratedClass("Greeter3", "none", <<>>, <<"classDecorator">>)
        \o <<Statement("96")>>
        \o DecoratedClass("Greeter6", "greet", <<"validate", "required">>, <<>>)
        \o <<Statement("226")>>
        \o DecoratedClass("Line", "p0", <<"myValidate", "design:type">>, <<>>)
        \o <<Statement("265"), Statement("266")>>

\* the statement on the given line of decorators.ts
decoratorsStatement(line, h) ==
    CASE line = "68" -> SetProp(h, Prototype("Person4"), "greet", Fn("greet68"))
      [] line = "73" ->
            HeapReturn((person :> HeapObj([name |-> FieldDesc(Chondan)], Prototype("Person4")))
                            @@ h, Undefined)
      [] line = "74" ->
            LET called == CallIfTruthy(h, person, "greet")
            IN  IF called.c = "return" /\ Lookup(h, person, "greet") = Fn("greet68")
                THEN CallIfTruthy(h, person, "getName") ELSE called
      [] line = "75" -> CallIfTruthy(h, person, "hello")
      [] line = "76" -> CallIfTruthy(h, person, "hi")
      [] line = "96" -> HeapReturn(h, JSArray(Construct(h["Greeter3"], World)))
      [] line = "226" ->
            LET h2 == (greeter :> HeapObj([greeting |-> FieldDesc(HowAreYou)],
                                          Prototype("Greeter6"))) @@ h
                r == CallGreet(h2, greeter, <<Chondan, Susuwan>>)
            IN  [c |-> r.c, v |-> r.v, heap |-> h2]
      [] line = "265" ->
            HeapReturn(("l" :> HeapObj([_p0 |-> FieldDesc(Point3(0, 0))], Prototype("Line")))
                            @@ h, Undefined)
      [] line = "266" -> SetP0(h, "l", Point3(1, 1))

\* src/HandbookReference/decorators.ts
decoratorsRun(i, k, h) ==
    LET s == decoratorsTopLevel[i]
    IN  CASE s.op = "class" -> HeapReturn(Declare(s.class) @@ h, Undefined)
          [] s.op = "evaluate" -> HeapReturn(h, Undefined)
          [] s.op = "call" -> HeapReturn(ApplyDecorator(h, s), Undefined)
          [] s.op = "statement" -> decoratorsStatement(s.d, h)

----------------------------------------------------------------------------
(* A script run on its own: its statements in order, until one throws or   *)
(* the last has run and the process exits                                  *)

Scripts ==
    {"functions", "part_003", "advancedTypes", "part_004", "part_002", "classes",
     "mixins", "decorators"}

\* the number of statements of a script
ScriptLength(script) ==
    CASE script = "functions" -> 13
      [] script = "part_003" -> 5
      [] script = "advancedTypes" -> 19
      [] script = "part_004" -> 20
      [] script = "part_002" -> 4
      [] script = "classes" -> 3
      [] script = "mixins" -> 6
      [] script = "decorators" -> Len(decoratorsTopLevel)

\* statement i of a script, run with heap h
RunScript(script, i, k, h) ==
    CASE script \in {"functions", "part_003"} -> functionsScript(script, i, k, h)
      [] script \in {"advancedTypes", "part_004"} -> advancedTypesScript(script, i, k, h)
      [] script = "part_002" -> part002Script(i, k, h)
      [] script = "classes" -> classesScript(i, k, h)
      [] script = "mixins" -> mixinsScript(i, k, h)
      [] script = "decorators" -> decoratorsRun(i, k, h)

InitScripts ==
    /\ file \in Scripts
    /\ fn = "start"
    /\ args = <<>>
    /\ ret = NoCall
    /\ heap = CASE file = "mixins" -> mixinsClasses
                [] file = "decorators" -> ("Reflect" :> [metadata |-> <<>>])
                [] OTHER -> <<>>
    /\ pc = 1
    /\ log = <<>>

\* a statement that throws ends the run: nothing catches
RunStatement ==
    /\ fn \in {"start", "statement"}
    /\ ret.c # "throw"
    /\ pc \in 1..ScriptLength(file)
    /\ \E k \in MathRandom :
        LET r == RunScript(file, pc, k, heap)
        IN  /\ ret' = [c |-> r.c, v |-> r.v]
            /\ heap' = r.heap
            /\ pc' = IF r.c = "throw" THEN pc ELSE pc + 1
    /\ fn' = "statement"
    /\ UNCHANGED <<file, args, log>>

Exit ==
    /\ fn \in {"start", "statement"}
    /\ pc = ScriptLength(file) + 1
    /\ fn' = "exit"
    /\ UNCHANGED <<file, args, ret, heap, pc, log>>

NextScripts == RunStatement \/ Exit

SpecScripts == InitScripts /\ [][NextScripts]_vars /\ WF_vars(NextScripts)

\* C1: every script, run on its own, runs its statements to the last and
\* exits, and no statement throws, whatever its Math.random() draws are.
C1_RunsToCompletion == [](ret.c # "throw") /\ <>(fn = "exit")

C1_Witness ==
    /\ file = "decorators" /\ fn = "exit"
    /\ Lookup(heap, Prototype("Line"), "_p0") = Point3(1, 1)
    /\ ret.c = "return"

----------------------------------------------------------------------------
(* part_002, lines 60-134: discriminated unions and exhaustiveness        *)

\* String(x) inside a template literal or a string concatenation: a plain
\* object prints as [object Object]
TemplateChars(x) ==
    IF x.t = "object" THEN <<"[object Object]">> ELSE ToChars(x)

\* `Downloaded ${s.response.title} - ${s.response.summary}`: reading a
\* property of a missing response is a TypeError
Downloaded(s) ==
    LET response == GetProp(s, "response")
    IN  IF IsNullish(response)
        THEN Throw(TypeError("Cannot read properties of undefined"))
        ELSE Return(Str(<<"Downloaded ">>
                        \o TemplateChars(GetProp(response, "title"))
                        \o <<" - ">>
                        \o TemplateChars(GetProp(response, "summary"))))

\* function logger(state: NetworkState): string, a switch with no default
logger(state) ==
    LET tag == ReadProp(state, "state")
    IN  IF tag.c = "throw" THEN tag
        ELSE CASE tag.v = Str(<<"loading">>) ->
                    Return(Str(<<"Downloading...">>))
               [] tag.v = Str(<<"failed">>) ->
                    Return(Str(<<"Error ">>
                               \o TemplateChars(GetProp(state, "code"))
                               \o <<" downloading">>))
               [] tag.v = Str(<<"success">>) -> Downloaded(state)
               [] OTHER -> Return(Undefined)

\* function logger2(s: NetworkState2): string, the same switch over the
\* union with the from_cache state added
logger2(s) ==
    LET tag == ReadProp(s, "state")
    IN  IF tag.c = "throw" THEN tag
        ELSE CASE tag.v = Str(<<"loading">>) ->
                    Return(Str(<<"Downloading...">>))
               [] tag.v = Str(<<"failed">>) ->
                    Return(Str(<<"Error ">>
                               \o TemplateChars(GetProp(s, "code"))
                               \o <<" downloading">>))
               [] tag.v = Str(<<"success">>) -> Downloaded(s)
               [] OTHER -> Return(Undefined)

\* function assertNever(x: never): never
assertNever(x) ==
    Throw(Error("Error", <<"Unexpected object: ">> \o TemplateChars(x)))

\* logger3 with its default branch left out
logger3_NoDefault(s) == logger2(s)

\* function logger3(s: NetworkState2): string
logger3(s) ==
    LET tag == ReadProp(s, "state")
    IN  IF tag.c = "throw" THEN tag
        ELSE CASE tag.v = Str(<<"loading">>) ->
                    Return(Str(<<"Downloading...">>))
               [] tag.v = Str(<<"failed">>) ->
                    Return(Str(<<"Error ">>
                               \o TemplateChars(GetProp(s, "code"))
                               \o <<" downloading">>))
               [] tag.v = Str(<<"success">>) -> Downloaded(s)
               [] OTHER -> assertNever(s)

\* the values of the declared state types, and states of tags the switch
\* does not know
Titles == { <<"T">>, <<"t", "s">>, <<>> }
Response(title, summary) ==
    Obj([title |-> Str(title), duration |-> Str(<<"1", "s">>),
         summary |-> Str(summary)])
NetworkLoadingState == Obj([state |-> Str(<<"loading">>)])
NetworkFailedState(code) == Obj([state |-> Str(<<"failed">>), code |-> code])
NetworkSuccessState(response) ==
    Obj([state |-> Str(<<"success">>), response |-> response])
NetworkFromCachedState(response) ==
    Obj([state |-> Str(<<"from_cache">>), id |-> Str(<<"i", "d">>),
         response |-> response])
Responses == { Response(title, summary) : title \in Titles, summary \in Titles }
KnownTags == { Str(<<"loading">>), Str(<<"failed">>), Str(<<"success">>) }
NetworkStates ==
    {NetworkLoadingState}
        \cup { NetworkFailedState(Num(n)) : n \in ((0 - MinNum)..MaxNum) \cup {404} }
        \cup { NetworkSuccessState(r) : r \in Responses }
        \cup { NetworkFromCachedState(r) : r \in Responses }
        \cup { Obj([state |-> Str(<<"idle">>)]), Obj([state |-> Num(0)]),
               Obj([code |-> Num(404)]) }

InitLoggers ==
    \E name \in {"logger", "logger2", "logger3"}, s \in NetworkStates :
        /\ file = "part_002"
        /\ fn = name
        /\ args = <<s>>
        /\ ret = NoCall
        /\ NoRun

\* the script calls one of the three loggers with the state
CallLogger ==
    /\ file = "part_002" /\ ret.c = "none"
    /\ fn \in {"logger", "logger2", "logger3"}
    /\ ret' = CASE fn = "logger" -> logger(args[1])
                [] fn = "logger2" -> logger2(args[1])
                [] fn = "logger3" -> logger3(args[1])
    /\ UNCHANGED <<file, fn, args, runVars>>

SpecLoggers == InitLoggers /\ [][CallLogger]_vars

----------------------------------------------------------------------------
(* C11 *)

\* C11: logger3 never returns undefined: for a state tagged loading, failed
\* or success it returns the same string as logger, and for every other
\* state (such as the forgotten from_cache) it throws the Error raised by
\* assertNever; logger2, which has no default branch, returns undefined for
\* that same state.
C11_Exhaustive ==
    LET s == args[1]
        known == GetProp(s, "state") \in KnownTags
    IN  /\ Called("part_002", "logger3") =>
            /\ ret # Return(Undefined)
            /\ known =>
                /\ ret.c = "return"
                /\ ret.v.t = "string"
                /\ ret = logger(s)
            /\ ~known =>
                /\ ret.c = "throw"
                /\ ret.v = Error("Error", <<"Unexpected object: ", "[object Object]">>)
        /\ Called("part_002", "logger2") =>
            (~known => ret = Return(Undefined))

C11_Witness ==
    /\ Called("part_002", "logger3")
    /\ GetProp(args[1], "state") = Str(<<"from_cache">>)
    /\ ret.c = "throw"
    /\ logger2(args[1]) = Return(Undefined)

----------------------------------------------------------------------------
(* advancedTypes.ts, lines 209-240: polymorphic this types. A chain of     *)
(* method calls on a calculator: heap is the sequence of the calculators   *)
(* that exist, ret the value of the expression so far, log the constructor *)
(* call followed by the add and multiply calls made                        *)

MaxChain == 3

\* a reference to the i-th object of the heap
Ref(i) == [t |-> "ref", id |-> i]

\* new ScientificCalculator(value): constructor(value = 0) { super(value); }
ScientificCalculator(value) ==
    [t |-> "object", props |-> BasicCalculator(DefaultParam(value, Num(0))).props,
     class |-> "ScientificCalculator"]

CalcValues == { Num(0 - 1), Num(0), Num(2), NaN }
CalcOperands == { Num(0 - 1), Num(0), Num(2), Num(5), Num(10), NaN }
CalcCall(op, arg) == [op |-> op, arg |-> arg]

InitCalculator ==
    /\ file = "advancedTypes"
    /\ pc = "chain"
    /\ \/ \E value \in CalcValues :
            /\ fn = "BasicCalculator"
            /\ args = <<value>>
            /\ heap = <<BasicCalculator(value)>>
       \/ \E value \in CalcValues \cup {Undefined} :
            /\ fn = "ScientificCalculator"
            /\ args = <<value>>
            /\ heap = <<ScientificCalculator(value)>>
    /\ log = <<CalcCall(fn, args[1])>>
    /\ ret = Return(Ref(1))

\* the instance the next call is made on: the value of the expression so
\* far, or the first calculator again once the chain has ended in a number
Receiver == IF ret.v.t = "ref" THEN ret.v.id ELSE 1

\* the heap after a method called on heap[id] has completed with result
HeapAfter(id, result) ==
    LET h == [heap EXCEPT ![id] = result.this]
    IN  IF result.v.t = "object" THEN Append(h, result.v) ELSE h

\* the value of the call expression: this is the instance called on
ValueAfter(id, result) ==
    CASE result.v = ThisRef -> Return(Ref(id))
      [] result.v.t = "object" -> Return(Ref(Len(heap) + 1))
      [] OTHER -> Return(result.v)

\* .add(operand)
CallAdd ==
    \E operand \in CalcOperands :
        LET result == BasicCalculator_add(heap[Receiver], operand)
        IN  /\ pc = "chain" /\ Len(log) <= MaxChain
            /\ fn' = "add"
            /\ args' = <<operand>>
            /\ heap' = HeapAfter(Receiver, result)
            /\ ret' = ValueAfter(Receiver, result)
            /\ log' = Append(log, CalcCall("add", operand))
            /\ UNCHANGED <<file, pc>>

\* .multiply(operand)
CallMultiply ==
    \E operand \in CalcOperands :
        LET result == BasicCalculator_multiply(heap[Receiver], operand)
        IN  /\ pc = "chain" /\ Len(log) <= MaxChain
            /\ fn' = "multiply"
            /\ args' = <<operand>>
            /\ heap' = HeapAfter(Receiver, result)
            /\ ret' = ValueAfter(Receiver, result)
            /\ log' = Append(log, CalcCall("multiply", operand))
            /\ UNCHANGED <<file, pc>>

\* .currentValue()
CallCurrentValue ==
    LET result == BasicCalculator_currentValue(heap[Receiver])
    IN  /\ pc = "chain" /\ fn # "currentValue"
        /\ fn' = "currentValue"
        /\ args' = <<>>
        /\ heap' = HeapAfter(Receiver, result)
        /\ ret' = ValueAfter(Receiver, result)
        /\ UNCHANGED <<file, pc, log>>

SpecCalculator ==
    InitCalculator /\ [][CallAdd \/ CallMultiply \/ CallCurrentValue]_vars

----------------------------------------------------------------------------
(* C12 *)

\* v folded left to right through the add and multiply calls
RECURSIVE FoldCalls(_, _)
FoldCalls(v, calls) ==
    IF calls = <<>> THEN v
    ELSE FoldCalls(IF Head(calls).op = "add" THEN JSPlus(v, Head(calls).arg)
                   ELSE JSTimes(v, Head(calls).arg),
                   Tail(calls))

\* C12: add and multiply return the very instance they were called on, so
\* after any chain of add and multiply calls on a calculator constructed
\* with v the calculator's value, and what currentValue() returns, is v
\* folded left to right through those calls; currentValue() changes
\* nothing; a ScientificCalculator stays the ScientificCalculator instance
\* through the inherited methods.
C12_Fluent ==
    pc = "chain" =>
        LET v == IF log[1].arg = Undefined THEN Num(0) ELSE log[1].arg
            expected == FoldCalls(v, Tail(log))
        IN  /\ Len(heap) = 1
            /\ fn \in {"add", "multiply"} => ret = Return(Ref(1))
            /\ heap[1].props.value = expected
            /\ fn = "currentValue" => ret = Return(expected)
            /\ log[1].op = "ScientificCalculator" =>
                /\ "class" \in DOMAIN heap[1]
                /\ heap[1].class = "ScientificCalculator"

C12_Witness ==
    /\ pc = "chain"
    /\ log = <<CalcCall("BasicCalculator", Num(2)), CalcCall("multiply", Num(5)),
               CalcCall("add", Num(10))>>
    /\ fn = "currentValue"
    /\ ret = Return(Num(20))
    /\ heap = <<BasicCalculator(Num(20))>>

----------------------------------------------------------------------------
(* part_004, lines 327-376: proxify and unproxify. heap holds the object   *)
(* o, its prototype if it has one, and what the two functions create; an   *)
(* object literal is modelled without Object.prototype, which has no       *)
(* enumerable property; log is the sequence of set calls made              *)

MaxSets == 2

\* for (const prop in o): the enumerable properties of o and of its
\* prototypes, a name visited once and hidden by an own property of the
\* same name
RECURSIVE ForIn(_, _)
ForIn(h, o) ==
    IF o = NoProto THEN {}
    ELSE { n \in DOMAIN h[o].props : h[o].props[n].enumerable }
            \cup (ForIn(h, h[o].proto) \ DOMAIN h[o].props)

\* the object literal { get: () => copy[prop], set: (value) => { copy[prop] = value } }:
\* the two closures share the copy and the property name they captured
Proxy(copy, prop) == [t |-> "proxy", copy |-> copy, prop |-> prop]

\* function proxify<T>(o: T): Proxify<T>; copy = {...o} takes the own
\* enumerable properties of o
proxify(h, o) ==
    LET own == { n \in DOMAIN h[o].props : h[o].props[n].enumerable }
        copy == HeapObj([n \in own |-> FieldDesc(h[o].props[n].value)], NoProto)
        obj == HeapObj([prop \in ForIn(h, o) |-> FieldDesc(Proxy("copy", prop))],
                       NoProto)
    IN  HeapReturn(("obj" :> obj) @@ ("copy" :> copy) @@ h, Ref("obj"))

\* function unproxify<T>(t: Proxify<T>): T, with t[k].get() read as copy[prop]
unproxify(h, t) ==
    LET get(proxy) == Lookup(h, proxy.copy, proxy.prop)
        result == HeapObj([k \in ForIn(h, t) |-> FieldDesc(get(Lookup(h, t, k)))],
                          NoProto)
    IN  HeapReturn(("result" :> result) @@ h, Ref("result"))

PropKeys == {"rooms", "floors"}
\* a property as an object literal makes it, and one that is not enumerable
OwnDescs ==
    { FieldDesc(Num(4)), FieldDesc(Num(0)), DataDesc(Num(9), TRUE, FALSE, TRUE) }
OwnProps == UNION { [keys -> OwnDescs] : keys \in SUBSET PropKeys }
ProtoProps == { [floors |-> FieldDesc(Num(1))], [rooms |-> FieldDesc(Num(7))] }
SetValues == { Num(10), Num(4) }

\* const props = { rooms: 4 }, and other objects in its place
InitProxify ==
    /\ file = "part_004"
    /\ fn = "props"
    /\ args = <<>>
    /\ ret = NoCall
    /\ pc = "start"
    /\ log = <<>>
    /\ \E props \in OwnProps :
          \/ heap = ("o" :> HeapObj(props, NoProto))
          \/ \E inherited \in ProtoProps :
                heap = ("o" :> HeapObj(props, "proto"))
                        @@ ("proto" :> HeapObj(inherited, NoProto))

\* const proxyProps = proxify(props)
CallProxify ==
    LET r == proxify(heap, "o")
    IN  /\ pc = "start"
        /\ pc' = "proxified"
        /\ fn' = "proxify"
        /\ args' = <<Ref("o")>>
        /\ heap' = r.heap
        /\ ret' = [c |-> r.c, v |-> r.v]
        /\ UNCHANGED <<file, log>>

\* proxyProps[prop].set(value)
CallSet ==
    /\ pc \in {"proxified", "unproxified"}
    /\ Len(log) < MaxSets
    /\ \E prop \in DOMAIN heap["obj"].props, value \in SetValues :
          LET proxy == Lookup(heap, "obj", prop)
              r == SetProp(heap, proxy.copy, proxy.prop, value)
          IN  /\ pc' = "proxified"
              /\ fn' = "set"
              /\ args' = <<Str(<<prop>>), value>>
              /\ heap' = r.heap
              /\ ret' = IF r.c = "throw" THEN [c |-> r.c, v |-> r.v]
                        ELSE Return(Undefined)
              /\ log' = Append(log, args')
              /\ UNCHANGED file

\* const originalProps = unproxify(proxyProps)
CallUnproxify ==
    LET r == unproxify(heap, "obj")
    IN  /\ pc = "proxified"
        /\ pc' = "unproxified"
        /\ fn' = "unproxify"
        /\ args' = <<Ref("obj")>>
        /\ heap' = r.heap
        /\ ret' = [c |-> r.c, v |-> r.v]
        /\ UNCHANGED <<file, log>>

SpecProxify ==
    InitProxify /\ [][CallProxify \/ CallSet \/ CallUnproxify]_vars

----------------------------------------------------------------------------
(* C13 *)

\* the own enumerable properties of an object, name to value
OwnValues(h, o) ==
    LET own == { n \in DOMAIN h[o].props : h[o].props[n].enumerable }
    IN  [n \in own |-> h[o].props[n].value]

\* C13, second half: whenever unproxify has returned, its result holds for
\* each key of the proxies the value that proxy's get() returns
C13_UnproxifyReadsProxies ==
    pc = "unproxified" =>
        /\ ret = Return(Ref("result"))
        /\ DOMAIN heap["result"].props = DOMAIN heap["obj"].props
        /\ \A k \in DOMAIN heap["obj"].props :
              LET proxy == heap["obj"].props[k].value
              IN  heap["result"].props[k].value
                      = Lookup(heap, proxy.copy, proxy.prop)

\* C13: unproxify(proxify(o)) has exactly the keys of o with equal values
\* (the keys read as the own enumerable ones or as those for-in visits),
\* and after any sequence of set calls unproxify returns for each key the
\* value its proxy's get() returns.
C13_Roundtrip ==
    /\ C13_UnproxifyReadsProxies
    /\ (pc = "unproxified" /\ log = <<>>) =>
        LET result == OwnValues(heap, "result")
        IN  /\ DOMAIN result \in { DOMAIN OwnValues(heap, "o"), ForIn(heap, "o") }
            /\ \A k \in DOMAIN result : result[k] = Lookup(heap, "o", k)

----------------------------------------------------------------------------
(* src/interfaces.ts, lines 61-66: a ReadonlyArray and a type assertion.   *)
(* heap holds the array and the constants declared so far, pc is the line  *)
(* about to run, args the array literal, and the index and the value of    *)
(* the assignment of line 65                                               *)

\* arr[index] = value, for an index inside the array
SetIndex(arr, index, value) == JSArray([arr.v EXCEPT ![index.v + 1] = value])

\* the statement of a line, run on the heap h
interfacesScript(line, h, literal, index, value) ==
    CASE line = 61 ->
            \* const numberArray: number[] = [1, 2, 3, 4]
            Let(("array" :> literal) @@ h, "numberArray", Return(Ref("array")))
      [] line = 62 ->
            \* const readonlyArray: ReadonlyArray<number> = numberArray
            Let(h, "readonlyArray", Return(h["numberArray"]))
      [] line = 63 ->
            \* console.log(readonlyArray)
            Do(h, Return(h[h["readonlyArray"].id]))
      [] line = 64 ->
            \* const aaaa = readonlyArray as number[]: the assertion does
            \* nothing when the script runs
            Let(h, "aaaa", Return(h["readonlyArray"]))
      [] line = 65 ->
            \* aaaa[0] = 111
            HeapReturn([h EXCEPT ![h["aaaa"].id] = SetIndex(@, index, value)], value)
      [] line = 66 ->
            \* console.log(aaaa)
            Do(h, Return(h[h["aaaa"].id]))

ArrayLiterals ==
    { <<Num(1), Num(2), Num(3), Num(4)>> }
        \cup (SeqsUpTo({Num(1), Num(2)}, 2) \ { <<>> })

InitInterfaces ==
    /\ file = "interfaces"
    /\ fn = "start"
    /\ \E elems \in ArrayLiterals, index \in 0..3, value \in {Num(111), Num(1)} :
          /\ index < Len(elems)
          /\ args = <<JSArray(elems), Num(index), value>>
    /\ ret = NoCall
    /\ heap = <<>>
    /\ pc = 61
    /\ log = <<>>

\* the next line runs; lines 63 and 66 print what they evaluate
RunLine ==
    LET r == interfacesScript(pc, heap, args[1], args[2], args[3])
    IN  /\ pc \in 61..66
        /\ pc' = pc + 1
        /\ fn' = "statement"
        /\ heap' = r.heap
        /\ ret' = [c |-> r.c, v |-> r.v]
        /\ log' = IF pc \in {63, 66} THEN Append(log, r.v.v) ELSE log
        /\ UNCHANGED <<file, args>>

SpecInterfaces == InitInterfaces /\ [][RunLine]_vars

----------------------------------------------------------------------------
(* C14 *)

\* C14: the contents of readonlyArray do not change after its creation: at
\* every later point of the script readonlyArray holds the elements it was
\* created with ([1, 2, 3, 4] in the script as written).
C14_ReadonlyArrayUnchanged ==
    (file = "interfaces" /\ pc > 62) =>
        heap[heap["readonlyArray"].id] = args[1]

\* the script as written has run to its end: line 66 printed [111, 2, 3, 4]
C14_Witness ==
    /\ file = "interfaces" /\ pc = 67
    /\ args = <<JSArray(<<Num(1), Num(2), Num(3), Num(4)>>), Num(0), Num(111)>>
    /\ log = << <<Num(1), Num(2), Num(3), Num(4)>>,
                <<Num(111), Num(2), Num(3), Num(4)>> >>
    /\ heap[heap["readonlyArray"].id] = JSArray(<<Num(111), Num(2), Num(3), Num(4)>>)

====
